---- MODULE Spec2Model ----
(***************************************************************************)
(* Model of the VC-Prep-Agent document pipeline: the two deck builders     *)
(* (POWERPOINT_VC_AGENT, POWERPOINT_NETWORKING_AGENT), their markdown      *)
(* parsers, and the quality pass (FinalPass_agent).                        *)
(*                                                                         *)
(* Text is modelled as a sequence of one-character strings, so that        *)
(* strip(), split(), startswith(), slicing and the regular expressions of  *)
(* the source are computed character by character.                         *)
(***************************************************************************)
EXTENDS Integers, Sequences, FiniteSets, TLC

VARIABLES
    builder,      \* "vc" | "net": the deck builder whose create_presentation runs
    thesis_data,  \* the parsed outline handed to create_presentation
    prs,          \* the Presentation under construction: a sequence of slides
    pc,           \* position inside create_presentation
    sec_i,        \* index of the next section of the for loop
    llm_log       \* the llm.invoke calls made so far, in order: what each was
                  \* for (0: the executive summary, i: section i) and what
                  \* it returned, or that it raised

VARIABLES
    qa_pc,            \* position inside FinalPassAgent.run
    qa_loaded,        \* the deck as load_presentation read it from its file
    qa_prs,           \* run's Presentation object (apply_fixes writes to it)
    issues,           \* self.issues
    grammar_feedback, \* the reply of the grammar-review call
    fixes,            \* generate_fixes' dict, in insertion order
    fix_todo,         \* problem slides generate_fixes has still to send
    reviewed,         \* what save_presentation wrote in this run, if anything
    report            \* what save_report wrote in this run, if anything

VARIABLES
    markdown,         \* the document handed to parse_thesis / parse_strategy
    parse_pc,         \* "loaded", then which parser has run
    parsed              \* the record the parser returned

VARIABLES
    agents_built,     \* how many of the bot's eleven agent fields are set
    bot_pc,           \* "idle", "get_agents", or the agent the handler calls next
    command,          \* the command being handled: "vc" | "networking"
    bot_args,         \* context.args of that command: the tokens after it
    bot_sector,          \* the sector the handler took from context.args
    bot_region,          \* the region the handler took from context.args
    events,           \* what the handler did in this invocation, in order:
                      \* messages and documents sent, agent calls and how
                      \* each ended
    invocations,      \* commands handled so far
    run_failed,       \* an exception was raised in this invocation
    failed_before     \* an exception was raised in an earlier invocation

VARIABLES
    files,            \* the Outputs directory: name, modification time, and
                      \* which agent wrote the file
    now,              \* the clock, in ticks shorter than a second
    second,           \* the clock's seconds, as strftime('%S') prints them
    agent_pc,         \* position inside the running agent's run, or "idle"
    cur,              \* the running (or last) agent invocation
    nruns             \* agent invocations started so far

VARIABLES
    pipes,            \* the pipeline runs on the Outputs directory: stage and
                      \* the files each run wrote and loaded
    owners            \* which pipeline run wrote the file now lying under a name

VARIABLES
    qa_runs,          \* how often run was called again on the FinalPassAgent
                      \* instance that has already run
    earlier_issues,   \* self.issues as the latest call of run found it
    earlier_raised    \* whether the run before the latest call had raised

builder_vars == <<builder, thesis_data, prs, pc, sec_i, llm_log>>
qa_vars == <<qa_pc, qa_loaded, qa_prs, issues, grammar_feedback, fixes, fix_todo,
             reviewed, report>>
parse_vars == <<markdown, parse_pc, parsed>>
bot_vars == <<agents_built, bot_pc, command, bot_args, bot_sector, bot_region, events,
              invocations,
              run_failed, failed_before>>
file_vars == <<files, now, second, agent_pc, cur, nruns>>
pipe_vars == <<pipes, owners>>
rerun_vars == <<qa_runs, earlier_issues, earlier_raised>>
vars == <<builder_vars, qa_vars, parse_vars, bot_vars, file_vars, pipe_vars,
          rerun_vars>>

\* what a builder step leaves alone
non_builder_vars == <<qa_vars, parse_vars, bot_vars, file_vars, pipe_vars,
     rerun_vars>>
\* what a quality-pass step leaves alone
non_qa_vars == <<builder_vars, parse_vars, bot_vars, file_vars, pipe_vars,
     rerun_vars>>
\* what a parser step leaves alone
non_parse_vars == <<builder_vars, qa_vars, bot_vars, file_vars, pipe_vars,
     rerun_vars>>
\* what a step of the bot leaves alone
non_bot_vars == <<builder_vars, qa_vars, parse_vars, file_vars, pipe_vars,
     rerun_vars>>
\* what a step of an agent run on the Outputs directory leaves alone
non_file_vars == <<builder_vars, qa_vars, parse_vars, bot_vars, pipe_vars,
     rerun_vars>>
\* what a step of a pipeline run on the Outputs directory leaves alone
non_pipe_vars == <<builder_vars, qa_vars, parse_vars, bot_vars, agent_pc, cur, nruns,
     rerun_vars>>

(***************************************************************************)
(* Bounds of the model.                                                    *)
(***************************************************************************)
MaxSections == 2
MaxQASlides == 4
MaxDocLines == 4
MaxReplyLines == 3
MaxArgs == 2
MaxInvocations == 2
MaxRuns == 3
MaxTicks == 1
MaxPipes == 2
MaxReruns == 2

(***************************************************************************)
(* Program constants.                                                      *)
(***************************************************************************)
MAX_BULLET_LEN == 120
BULLET_KEEP == 117
MAX_SUMMARY_LEN == 100
SUMMARY_KEEP == 97
TARGET_BULLETS == 3

(***************************************************************************)
(* Python string primitives used by the agents.                            *)
(***************************************************************************)
SetMin(S) == CHOOSE x \in S : \A y \in S : x <= y
SetMax(S) == CHOOSE x \in S : \A y \in S : x >= y

Rep(c, n) == [i \in 1..n |-> c]

\* the characters str.strip() removes
WS == {" ", "\t", "\n", "\r", "\f"}

\* index of the first character of s at or after i that strip() keeps
RECURSIVE FirstKept(_, _)
FirstKept(s, i) ==
    IF i > Len(s) \/ s[i] \notin WS THEN i ELSE FirstKept(s, i + 1)

\* index of the last character of s at or before i that strip() keeps
RECURSIVE LastKept(_, _)
LastKept(s, i) ==
    IF i < 1 \/ s[i] \notin WS THEN i ELSE LastKept(s, i - 1)

\* str.strip()
Strip(s) == SubSeq(s, FirstKept(s, 1), LastKept(s, Len(s)))

\* str.split(c) for a one-character separator
RECURSIVE Split(_, _)
Split(s, c) ==
    LET at == {i \in 1..Len(s) : s[i] = c}
    IN  IF at = {} THEN <<s>>
        ELSE <<SubSeq(s, 1, SetMin(at) - 1)>>
             \o Split(SubSeq(s, SetMin(at) + 1, Len(s)), c)

\* str.startswith(p)
StartsWith(s, p) == Len(s) >= Len(p) /\ SubSeq(s, 1, Len(p)) = p

\* s[k:]
From(s, k) == SubSeq(s, k + 1, Len(s))

\* s[:k]
UpTo(s, k) == SubSeq(s, 1, IF Len(s) < k THEN Len(s) ELSE k)

DigitChars == <<"0", "1", "2", "3", "4", "5", "6", "7", "8", "9">>
IsDigit(c) == \E d \in 1..10 : DigitChars[d] = c
DigitValue(c) == (CHOOSE d \in 1..10 : DigitChars[d] = c) - 1

\* index after the run of \s characters that starts at i
RECURSIVE SpaceRunEnd(_, _)
SpaceRunEnd(s, i) ==
    IF i <= Len(s) /\ s[i] \in WS THEN SpaceRunEnd(s, i + 1) ELSE i

\* index after the run of \d characters that starts at i
RECURSIVE DigitRunEnd(_, _)
DigitRunEnd(s, i) ==
    IF i <= Len(s) /\ IsDigit(s[i]) THEN DigitRunEnd(s, i + 1) ELSE i

\* "- "
BulletMarker == <<"-"," ">>
\* "..."
Ellipsis == <<".",".",".">>
\* "Additional research pending"
Filler == <<"A","d","d","i","t","i","o","n","a","l"," ","r","e","s","e","a","r","c","h"," ","p","e","n","d","i","n","g">>
\* "Key insight from research"
SummaryFiller == <<"K","e","y"," ","i","n","s","i","g","h","t"," ","f","r","o","m"," ","r","e","s","e","a","r","c","h">>

(***************************************************************************)
(* POWERPOINT_VC_AGENT: condensation.  The argument is response.content,   *)
(* the text the language model returned.                                   *)
(***************************************************************************)
\* the for loop of condense_to_three_bullets over the reply's lines
RECURSIVE VC_reply_bullets(_)
VC_reply_bullets(lines) ==
    IF lines = <<>> THEN <<>>
    ELSE LET line == Strip(Head(lines))
             bullet == Strip(From(line, 2))
             capped == IF Len(bullet) > MAX_BULLET_LEN
                       THEN UpTo(bullet, BULLET_KEEP) \o Ellipsis
                       ELSE bullet
         IN  (IF StartsWith(line, BulletMarker) THEN <<capped>> ELSE <<>>)
             \o VC_reply_bullets(Tail(lines))

\* PadTo3 without the while loop
PadTo3_NoPadding(bullets, filler) == bullets

\* while len(bullets) < 3: bullets.append(filler)
RECURSIVE PadTo3(_, _)
PadTo3(bullets, filler) ==
    IF Len(bullets) < TARGET_BULLETS THEN PadTo3(Append(bullets, filler), filler)
    ELSE bullets

VC_condense_to_three_bullets(response) ==
    LET bullets == VC_reply_bullets(Split(Strip(response), "\n"))
    IN  UpTo(PadTo3(bullets, Filler), 3)

RECURSIVE VC_summary_bullets(_)
VC_summary_bullets(lines) ==
    IF lines = <<>> THEN <<>>
    ELSE LET line == Strip(Head(lines))
             bullet == Strip(From(line, 2))
             capped == IF Len(bullet) > MAX_SUMMARY_LEN
                       THEN UpTo(bullet, SUMMARY_KEEP) \o Ellipsis
                       ELSE bullet
         IN  (IF StartsWith(line, BulletMarker) THEN <<capped>> ELSE <<>>)
             \o VC_summary_bullets(Tail(lines))

VC_condense_executive_summary(response) ==
    LET bullets == VC_summary_bullets(Split(Strip(response), "\n"))
    IN  UpTo(PadTo3(bullets, SummaryFiller), 3)

(***************************************************************************)
(* POWERPOINT_NETWORKING_AGENT: condensation and bullet extraction.        *)
(***************************************************************************)
RECURSIVE Net_reply_bullets(_)
Net_reply_bullets(lines) ==
    IF lines = <<>> THEN <<>>
    ELSE LET line == Strip(Head(lines))
             bullet == Strip(From(line, 2))
             capped == IF Len(bullet) > MAX_BULLET_LEN
                       THEN UpTo(bullet, BULLET_KEEP) \o Ellipsis
                       ELSE bullet
         IN  (IF StartsWith(line, BulletMarker) THEN <<capped>> ELSE <<>>)
             \o Net_reply_bullets(Tail(lines))

\* Net_condense_to_three_bullets returning bullets[-3:]
Net_condense_LastThree(response) ==
    LET bullets == PadTo3(Net_reply_bullets(Split(Strip(response), "\n")), Filler)
    IN  SubSeq(bullets, Len(bullets) - 2, Len(bullets))

Net_condense_to_three_bullets(response) ==
    LET bullets == Net_reply_bullets(Split(Strip(response), "\n"))
    IN  UpTo(PadTo3(bullets, Filler), 3)

\* the for loop of extract_bullets over the section content's lines
RECURSIVE Net_content_bullets(_)
Net_content_bullets(lines) ==
    IF lines = <<>> THEN <<>>
    ELSE LET line == Strip(Head(lines))
             bullet == Strip(From(line, 2))
         IN  (IF StartsWith(line, BulletMarker) /\ bullet # <<>>
              THEN <<bullet>> ELSE <<>>)
             \o Net_content_bullets(Tail(lines))

\* extract_bullets returns the content's own bullets without a model call
\* exactly when it found three of them
Net_reuses_content(content) ==
    Len(Net_content_bullets(Split(content, "\n"))) = 3

\* extract_bullets; response is only read when the content is not reused
Net_extract_bullets(content, response) ==
    IF Net_reuses_content(content)
    THEN Net_content_bullets(Split(content, "\n"))
    ELSE Net_condense_to_three_bullets(response)

(***************************************************************************)
(* parse_thesis and parse_strategy: the regular expressions, matched the   *)
(* way Python's re module matches them.                                    *)
(***************************************************************************)
\* whether the literal lit stands in text at index i
At(text, i, lit) ==
    /\ i >= 1 /\ i + Len(lit) - 1 <= Len(text)
    /\ SubSeq(text, i, i + Len(lit) - 1) = lit

\* index of the first newline of text at or after i, Len(text) + 1 if none
RECURSIVE LineEnd(_, _)
LineEnd(text, i) ==
    IF i > Len(text) \/ text[i] = "\n" THEN i ELSE LineEnd(text, i + 1)

\* r'\*\*Region\*\*:\s*(.+?)$' with re.MULTILINE: where group 1 starts when the
\* match is tried at p, 0 if it fails there.  \s* is greedy and gives back
\* one character at a time until (.+?) finds a character that is no newline.
region_group_start(text, p) ==
    LET a == p + Len(<<"*","*","R","e","g","i","o","n","*","*",":">>)
        b == SpaceRunEnd(text, a)
        ok == {g \in a..b : g <= Len(text) /\ text[g] # "\n"}
    IN  IF At(text, p, <<"*","*","R","e","g","i","o","n","*","*",":">>) /\ ok # {} THEN SetMax(ok) ELSE 0

\* lines 93-95: data['region']
parse_region(text) ==
    LET hits == {p \in 1..Len(text) : region_group_start(text, p) > 0}
    IN  IF hits = {} THEN <<"U","S">>
        ELSE LET g == region_group_start(text, SetMin(hits))
             IN  Strip(SubSeq(text, g, LineEnd(text, g + 1) - 1))

\* lines 98-100: data['sector'], r'^## (.+?)$' with re.MULTILINE
parse_sector(text) ==
    LET hits == {p \in 1..Len(text) :
                    /\ p = 1 \/ text[p - 1] = "\n"
                    /\ At(text, p, <<"#","#"," ">>)
                    /\ p + 3 <= Len(text) /\ text[p + 3] # "\n"}
    IN  IF hits = {} THEN <<>>
        ELSE LET g == SetMin(hits) + 3
             IN  Strip(SubSeq(text, g, LineEnd(text, g + 1) - 1))

\* the lookahead (?=\n---|\n## \d) of the executive-summary pattern
summary_ends_at(text, e) ==
    \/ At(text, e, <<"\n","-","-","-">>)
    \/ At(text, e, <<"\n","#","#"," ">>) /\ e + 4 <= Len(text) /\ IsDigit(text[e + 4])

\* r'## Executive Summary\s*\n+(.*?)(?=\n---|\n## \d)' with re.DOTALL tried
\* at p: the starts of group 1 that \s*\n+ allows and from which the
\* lookahead is found
summary_group_starts(text, p) ==
    LET a == p + Len(<<"#","#"," ","E","x","e","c","u","t","i","v","e"," ","S","u","m","m","a","r","y">>)
        b == SpaceRunEnd(text, a)
    IN  IF ~At(text, p, <<"#","#"," ","E","x","e","c","u","t","i","v","e"," ","S","u","m","m","a","r","y">>) THEN {}
        ELSE {c \in (a + 1)..b :
                /\ text[c - 1] = "\n"
                /\ \E e \in c..Len(text) : summary_ends_at(text, e)}

\* lines 103-105: data['executive_summary']; backtracking tries the latest
\* start of group 1 first, and (.*?) stops at the first lookahead match
parse_executive_summary(text) ==
    LET hits == {p \in 1..Len(text) : summary_group_starts(text, p) # {}}
    IN  IF hits = {} THEN <<>>
        ELSE LET c == SetMax(summary_group_starts(text, SetMin(hits)))
                 e == SetMin({x \in c..Len(text) : summary_ends_at(text, x)})
             IN  Strip(SubSeq(text, c, e - 1))

\* the alternative \n---\s*\n## Methodology of the section lookahead
methodology_at(text, e) ==
    /\ At(text, e, <<"\n","-","-","-">>)
    /\ \E m \in (e + 4)..Len(text) :
          /\ \A k \in (e + 4)..(m - 1) : text[k] \in WS
          /\ At(text, m, <<"\n","#","#"," ","M","e","t","h","o","d","o","l","o","g","y">>)

\* the lookahead (?=\n## \d|\n---\s*\n## Methodology|$) of the section
\* pattern; $ without re.MULTILINE holds at the end of the text and before a
\* newline that ends the text
section_ends_at(text, e) ==
    \/ At(text, e, <<"\n","#","#"," ">>) /\ e + 4 <= Len(text) /\ IsDigit(text[e + 4])
    \/ methodology_at(text, e)
    \/ e = Len(text) + 1
    \/ e = Len(text) /\ text[e] = "\n"

\* r'## (\d+)\. (.+?)\n' of the section pattern tried at p: the index of the
\* newline that ends group 2, 0 if the header does not match there.  With
\* re.DOTALL the first character of group 2 may itself be a newline.
section_title_end(text, p) ==
    LET d == DigitRunEnd(text, p + 3)
        q == d + 2
    IN  IF /\ At(text, p, <<"#","#"," ">>) /\ d > p + 3 /\ At(text, d, <<"."," ">>)
           /\ q + 1 <= Len(text) /\ LineEnd(text, q + 1) <= Len(text)
        THEN LineEnd(text, q + 1) ELSE 0

\* lines 108-118: re.finditer over the text from index pos on
RECURSIVE parse_sections_from(_, _)
parse_sections_from(text, pos) ==
    LET hits == {p \in pos..Len(text) : section_title_end(text, p) > 0}
    IN  IF hits = {} THEN <<>>
        ELSE LET p == SetMin(hits)
                 d == DigitRunEnd(text, p + 3)
                 j == section_title_end(text, p)
                 e == SetMin({x \in (j + 1)..(Len(text) + 1) : section_ends_at(text, x)})
             IN  << [number |-> SubSeq(text, p + 3, d - 1),
                     title |-> Strip(SubSeq(text, d + 2, j - 1)),
                     content |-> Strip(SubSeq(text, j + 1, e - 1))] >>
                 \o parse_sections_from(text, e)

parse_thesis(text) ==
    [sector |-> parse_sector(text),
     region |-> parse_region(text),
     executive_summary |-> parse_executive_summary(text),
     sections |-> parse_sections_from(text, 1)]

parse_strategy(text) ==
    [sector |-> parse_sector(text),
     region |-> parse_region(text),
     sections |-> parse_sections_from(text, 1)]

(***************************************************************************)
(* Slides.  A slide is its layout, its shapes in z-order and its speaker   *)
(* notes; a shape is the paragraphs of its text frame, and is_title says   *)
(* whether it is the slide's title placeholder (slide.shapes.title).       *)
(***************************************************************************)
\* slide.shapes.add_textbox(...) with one paragraph of text
TextBox(text) == [is_title |-> FALSE, paras |-> <<text>>]

\* slide.shapes.add_shape(MSO_SHAPE.RECTANGLE, ...): a text frame holding one
\* empty paragraph
Rectangle == [is_title |-> FALSE, paras |-> << <<>> >>]

\* datetime.now().strftime('%B %Y')
NowMonthYear == <<"N","o","v","e","m","b","e","r"," ","2","0","2","6">>

\* "  |  "
Bar == <<" "," ","|"," "," ">>
\* "GPTOSS VC Thesis System"
SystemName == <<"G","P","T","O","S","S"," ","V","C"," ","T","h","e","s","i","s"," ","S","y","s","t","e","m">>

VC_add_title_slide(sector, region) ==
    [layout |-> "blank",
     shapes |-> << Rectangle,
                   TextBox(<<"V","e","n","t","u","r","e"," ","C","a","p","i","t","a","l"," ","I","n","d","u","s","t","r","y"," ","T","h","e","s","i","s">>),
                   TextBox(sector),
                   TextBox(region \o Bar \o NowMonthYear \o Bar \o SystemName),
                   Rectangle >>,
     has_notes |-> FALSE, notes |-> <<>>]

\* layout 1 (Title and Content): the title placeholder, then the body
\* placeholder; tf.clear() leaves one empty paragraph, which bullet 0 fills
VC_add_content_slide(title, bullets) ==
    [layout |-> "title_content",
     shapes |-> << [is_title |-> TRUE, paras |-> <<title>>],
                   [is_title |-> FALSE,
                    paras |-> IF bullets = <<>> THEN << <<>> >> ELSE bullets] >>,
     has_notes |-> FALSE, notes |-> <<>>]

VC_add_closing_slide(sector) ==
    [layout |-> "blank",
     shapes |-> << Rectangle,
                   TextBox(<<"T","h","a","n","k"," ","Y","o","u">>),
                   TextBox(sector \o <<" ","I","n","d","u","s","t","r","y"," ","T","h","e","s","i","s">>),
                   TextBox(<<"G","e","n","e","r","a","t","e","d"," ","b","y"," ">> \o SystemName \o Bar \o NowMonthYear) >>,
     has_notes |-> FALSE, notes |-> <<>>]

Net_add_title_slide(sector, region) ==
    [layout |-> "blank",
     shapes |-> << Rectangle,
                   TextBox(<<"N","e","t","w","o","r","k","i","n","g"," ","S","t","r","a","t","e","g","y">>),
                   TextBox(sector),
                   TextBox(region \o Bar \o NowMonthYear \o Bar \o SystemName),
                   Rectangle >>,
     has_notes |-> FALSE, notes |-> <<>>]

Net_add_content_slide(title, bullets) ==
    [layout |-> "title_content",
     shapes |-> << [is_title |-> TRUE, paras |-> <<title>>],
                   [is_title |-> FALSE,
                    paras |-> IF bullets = <<>> THEN << <<>> >> ELSE bullets] >>,
     has_notes |-> FALSE, notes |-> <<>>]

Net_add_closing_slide(sector) ==
    [layout |-> "blank",
     shapes |-> << Rectangle,
                   TextBox(<<"T","h","a","n","k"," ","Y","o","u">>),
                   TextBox(sector \o <<" ","N","e","t","w","o","r","k","i","n","g"," ","S","t","r","a","t","e","g","y">>),
                   TextBox(<<"G","e","n","e","r","a","t","e","d"," ","b","y"," ">> \o SystemName \o Bar \o NowMonthYear) >>,
     has_notes |-> FALSE, notes |-> <<>>]

\* f"{section_num}. {section_title}"
full_title(section) == section.number \o <<"."," ">> \o section.title

(***************************************************************************)
(* FinalPass_agent: slide extraction and the heuristic checks.             *)
(***************************************************************************)
MAX_CHARS_PER_LINE == 85
MAX_LINES_PER_TEXTBOX == 8
COUNTABLE_OVER == 10
MIN_BULLETS == 2
MAX_BULLETS == 6

\* sum of f[i] over 1..Len(f)
RECURSIVE SumSeq(_)
SumSeq(f) == IF f = <<>> THEN 0 ELSE Head(f) + SumSeq(Tail(f))

\* concatenation of the texts of a sequence
RECURSIVE Concat(_)
Concat(f) == IF f = <<>> THEN <<>> ELSE Head(f) \o Concat(Tail(f))

\* lines 113-124: the text of one shape's text frame and its bullet count
shape_text_raw(shape) ==
    Concat([k \in 1..Len(shape.paras) |->
              IF Strip(shape.paras[k]) # <<>>
              THEN Strip(shape.paras[k]) \o <<"\n">> ELSE <<>>])

shape_bullet_count(shape) ==
    SumSeq([k \in 1..Len(shape.paras) |->
              IF Strip(shape.paras[k]) # <<>>
                 /\ Len(Strip(shape.paras[k])) > COUNTABLE_OVER
              THEN 1 ELSE 0])

\* lines 92-137: the record extract_slide_content builds for slide i
slide_data(slide, i) ==
    LET texted == SelectSeq(slide.shapes,
                            LAMBDA sh : Strip(shape_text_raw(sh)) # <<>>)
        titles == SelectSeq(texted, LAMBDA sh : sh.is_title)
    IN  [number |-> i,
         title |-> IF titles = <<>> THEN <<>>
                   ELSE Head(Split(Strip(shape_text_raw(titles[Len(titles)])), "\n")),
         text_boxes |-> [k \in 1..Len(texted) |->
                           [text |-> Strip(shape_text_raw(texted[k])),
                            bullet_count |-> shape_bullet_count(texted[k])]],
         total_text |-> Concat([k \in 1..Len(texted) |-> shape_text_raw(texted[k])]),
         bullet_count |-> SumSeq([k \in 1..Len(texted) |->
                                    shape_bullet_count(texted[k])])]

extract_slide_content(deck) == [i \in 1..Len(deck) |-> slide_data(deck[i], i)]

\* QAIssue(slide_num, issue_type, description, severity); the description is
\* free text for the reader of the report and is left out
QAIssue(num, type, severity) ==
    [slide_num |-> num, issue_type |-> type, severity |-> severity]

\* the issues validate_content_completeness appends
validate_content_completeness(slides_data) ==
    Concat([i \in 1..Len(slides_data) |->
        IF i = 1 \/ i = Len(slides_data) THEN <<>>
        ELSE (IF Strip(slides_data[i].total_text) = <<>>
              THEN <<QAIssue(i, "empty_slide", "error")>> ELSE <<>>)
             \o (IF slides_data[i].title = <<>>
                 THEN <<QAIssue(i, "missing_title", "error")>> ELSE <<>>)])

\* bullet_rule_skips exempting only the first and the last slide
bullet_rule_skips_NotSecond(num, n) == num \in {1, n}

\* num in [1, 2, len(slides_data)]
bullet_rule_skips(num, n) == num \in {1, 2, n}

\* validate_bullet_count with bullet_count <= 2 as the too-few test
validate_bullet_count_AtMostTwo(slides_data) ==
    Concat([i \in 1..Len(slides_data) |->
        IF bullet_rule_skips(i, Len(slides_data)) THEN <<>>
        ELSE IF slides_data[i].bullet_count <= MIN_BULLETS
             THEN <<QAIssue(i, "too_few_bullets", "warning")>>
        ELSE IF slides_data[i].bullet_count > MAX_BULLETS
             THEN <<QAIssue(i, "too_many_bullets", "warning")>>
        ELSE <<>>])

\* the issues validate_bullet_count appends
validate_bullet_count(slides_data) ==
    Concat([i \in 1..Len(slides_data) |->
        IF bullet_rule_skips(i, Len(slides_data)) THEN <<>>
        ELSE IF slides_data[i].bullet_count < MIN_BULLETS
             THEN <<QAIssue(i, "too_few_bullets", "warning")>>
        ELSE IF slides_data[i].bullet_count > MAX_BULLETS
             THEN <<QAIssue(i, "too_many_bullets", "warning")>>
        ELSE <<>>])

\* the issues validate_text_overflow appends for one text box;
\* len(line) > MAX_CHARS_PER_LINE * 1.5 in integers
text_box_overflow(num, tb) ==
    LET lines == Split(tb.text, "\n")
    IN  Concat([k \in 1..Len(lines) |->
                  IF 2 * Len(lines[k]) > 3 * MAX_CHARS_PER_LINE
                  THEN <<QAIssue(num, "long_line", "warning")>> ELSE <<>>])
        \o (IF Len(lines) > MAX_LINES_PER_TEXTBOX
            THEN <<QAIssue(num, "too_many_lines", "warning")>> ELSE <<>>)

validate_text_overflow(slides_data) ==
    Concat([i \in 1..Len(slides_data) |->
        Concat([k \in 1..Len(slides_data[i].text_boxes) |->
                  text_box_overflow(i, slides_data[i].text_boxes[k])])])

(***************************************************************************)
(* Inputs of the deck builders: parsed outlines and language-model         *)
(* replies.                                                                *)
(***************************************************************************)
\* a section without any bullet line
SecProse == [title |-> <<"M","a","c","r","o">>, content |-> <<"P","l","a","i","n"," ","p","r","o","s","e",","," ","n","o"," ","b","u","l","l","e","t","s",".">>]
\* a section with one bullet line
SecOne == [title |-> <<"E","m","e","r","g","i","n","g"," ","T","r","e","n","d","s">>,
           content |-> <<"I","n","t","r","o"," ","l","i","n","e","\n","-"," ","o","n","l","y"," ","o","n","e"," ","b","u","l","l","e","t"," ","l","i","n","e">>]
\* a section with exactly three bullet lines, each within the cap
SecThree == [title |-> <<"T","a","x","o","n","o","m","y">>,
             content |-> <<"-"," ","f","i","r","s","t"," ","b","u","l","l","e","t"," ","l","i","n","e","\n","-"," ","s","e","c","o","n","d"," ","b","u","l","l","e","t"," ","l","i","n","e","\n"," "," ","-"," ","t","h","i","r","d"," ","b","u","l","l","e","t"," ","l","i","n","e">>]
\* a section with exactly three bullet lines, the first 121 characters long
SecThreeLong == [title |-> <<"F","i","l","t","e","r","s">>,
                 content |-> <<"-"," ">> \o Rep("x", 121)
                             \o <<"\n","-"," ","s","e","c","o","n","d"," ","b","u","l","l","e","t"," ","l","i","n","e","\n","-"," ","t","h","i","r","d"," ","b","u","l","l","e","t"," ","l","i","n","e">>]

SectionTemplates == {SecProse, SecOne, SecThree, SecThreeLong}

\* section numbers as written in the document, by position (not contiguous)
NumberAt(i) == << <<"1">>, <<"2">>, <<"5">>, <<"7">>, <<"9">>, <<"1","2">> >>[i]

Numbered(f) ==
    [i \in DOMAIN f |->
        [number |-> NumberAt(i), title |-> f[i].title, content |-> f[i].content]]

SectionLists ==
    { Numbered(f) : f \in UNION { [1..n -> SectionTemplates] : n \in 0..MaxSections } }

\* the outline of the end-to-end scenario: five sections, three bullets each
StubSections == Numbered([i \in 1..5 |-> SecThree])

Sector == <<"B","2","B"," ","F","i","n","t","e","c","h">>
Region == <<"U","S">>

VCOutlines ==
    { [sector |-> Sector, region |-> Region, executive_summary |-> e, sections |-> ss] :
        e \in {<<>>, <<"F","i","n","t","e","c","h"," ","i","s"," ","g","r","o","w","i","n","g",".">>}, ss \in SectionLists }
    \cup { [sector |-> Sector, region |-> Region, executive_summary |-> <<>>,
            sections |-> StubSections] }

NetOutlines ==
    { [sector |-> Sector, region |-> Region, sections |-> ss] :
        ss \in SectionLists \cup {StubSections} }

\* replies of the language model to a condensation request
ReplyEmpty == <<>>
ReplyProse == <<"S","u","r","e",","," ","h","e","r","e"," ","i","s"," ","a"," ","s","u","m","m","a","r","y",".">>
\* two bullet lines, of 121 and of 120 characters, with blank space around
ReplyTwo == <<"\n","-"," ">> \o Rep("y", 121) \o <<"\n","\n"," "," ","-"," "," ">> \o Rep("z", 120) \o <<" "," ","\n">>
\* four bullet lines
ReplyFour == <<"-"," ","a","a","\n","-"," ","b","b","\n","-"," ","c","c","\n","-"," ","d","d">>

\* the reply asked for: three bullet lines
ReplyThree == <<"-"," ","M","a","r","k","e","t"," ","g","r","o","w","s"," ","2","0","%"," ","a"," ","y","e","a","r","\n","-"," ","B","a","n","k","s"," ","b","u","y",","," ","n","o","t"," ","b","u","i","l","d","\n","-"," ","E","u","r","o","p","e"," ","l","a","g","s"," ","t","h","e"," ","U","S">>

Replies == {ReplyEmpty, ReplyProse, ReplyTwo, ReplyThree, ReplyFour}
SummaryReplies == {ReplyEmpty, ReplyTwo}

(***************************************************************************)
(* create_presentation of both builders, one step per slide: a section     *)
(* step holds the language-model call made for that section.               *)
(***************************************************************************)
Sections == thesis_data.sections

\* self.llm.invoke(messages) returned response
Returned(call, response) == [call |-> call, raised |-> FALSE, response |-> response]
\* self.llm.invoke(messages) raised
Raised(call) == [call |-> call, raised |-> TRUE, response |-> <<>>]

\* VC_has_summary_slide without the test
VC_has_summary_slide_Always(data) == TRUE

\* if thesis_data.get('executive_summary'):
VC_has_summary_slide(data) == data.executive_summary # <<>>

\* lines 195-209, up to the first model call: the title slide
VC_BeginCreate ==
    /\ builder = "vc" /\ pc = "start"
    /\ prs' = << VC_add_title_slide(thesis_data.sector, thesis_data.region) >>
    /\ pc' = IF VC_has_summary_slide(thesis_data) THEN "summary" ELSE "sections"
    /\ UNCHANGED <<builder, thesis_data, sec_i, llm_log, non_builder_vars>>

\* lines 209-212: the executive-summary slide
VC_SummarySlide(response) ==
    /\ builder = "vc" /\ pc = "summary"
    /\ prs' = Append(prs, VC_add_content_slide(<<"E","x","e","c","u","t","i","v","e"," ","S","u","m","m","a","r","y">>,
                              VC_condense_executive_summary(response)))
    /\ llm_log' = Append(llm_log, Returned(0, response))
    /\ pc' = "sections"
    /\ UNCHANGED <<builder, thesis_data, sec_i, non_builder_vars>>

\* the bullets create_presentation gives to the slide of a section
VC_section_bullets(section, response) ==
    VC_condense_to_three_bullets(response)

\* whether create_presentation calls the model for a section
VC_section_calls_llm(section) == TRUE

\* lines 215-222: one iteration of the for loop
VC_SectionSlide(response) ==
    /\ builder = "vc" /\ pc = "sections" /\ sec_i <= Len(Sections)
    /\ prs' = Append(prs, VC_add_content_slide(full_title(Sections[sec_i]),
                              VC_section_bullets(Sections[sec_i], response)))
    /\ llm_log' = IF VC_section_calls_llm(Sections[sec_i])
                   THEN Append(llm_log, Returned(sec_i, response)) ELSE llm_log
    /\ sec_i' = sec_i + 1
    /\ UNCHANGED <<builder, thesis_data, pc, non_builder_vars>>

\* lines 224-228: the closing slide
VC_ClosingSlide ==
    /\ builder = "vc" /\ pc = "sections" /\ sec_i > Len(Sections)
    /\ prs' = Append(prs, VC_add_closing_slide(thesis_data.sector))
    /\ pc' = "done"
    /\ UNCHANGED <<builder, thesis_data, sec_i, llm_log, non_builder_vars>>

\* self.llm.invoke raises: the exception leaves create_presentation
VC_InvokeRaises ==
    /\ builder = "vc"
    /\ \/ pc = "summary" /\ llm_log' = Append(llm_log, Raised(0))
       \/ pc = "sections" /\ sec_i <= Len(Sections)
                          /\ VC_section_calls_llm(Sections[sec_i])
                          /\ llm_log' = Append(llm_log, Raised(sec_i))
    /\ pc' = "failed"
    /\ UNCHANGED <<builder, thesis_data, prs, sec_i, non_builder_vars>>

Net_BeginCreate ==
    /\ builder = "net" /\ pc = "start"
    /\ prs' = << Net_add_title_slide(thesis_data.sector, thesis_data.region) >>
    /\ pc' = "sections"
    /\ UNCHANGED <<builder, thesis_data, sec_i, llm_log, non_builder_vars>>

\* whether extract_bullets calls the model for a section
Net_section_calls_llm(section) == ~Net_reuses_content(section.content)

\* lines 181-188: one iteration of the for loop
Net_SectionSlide(response) ==
    /\ builder = "net" /\ pc = "sections" /\ sec_i <= Len(Sections)
    /\ prs' = Append(prs, Net_add_content_slide(full_title(Sections[sec_i]),
                              Net_extract_bullets(Sections[sec_i].content, response)))
    /\ llm_log' = IF Net_section_calls_llm(Sections[sec_i])
                   THEN Append(llm_log, Returned(sec_i, response)) ELSE llm_log
    /\ sec_i' = sec_i + 1
    /\ UNCHANGED <<builder, thesis_data, pc, non_builder_vars>>

Net_ClosingSlide ==
    /\ builder = "net" /\ pc = "sections" /\ sec_i > Len(Sections)
    /\ prs' = Append(prs, Net_add_closing_slide(thesis_data.sector))
    /\ pc' = "done"
    /\ UNCHANGED <<builder, thesis_data, sec_i, llm_log, non_builder_vars>>

Net_InvokeRaises ==
    /\ builder = "net" /\ pc = "sections" /\ sec_i <= Len(Sections)
    /\ Net_section_calls_llm(Sections[sec_i])
    /\ llm_log' = Append(llm_log, Raised(sec_i))
    /\ pc' = "failed"
    /\ UNCHANGED <<builder, thesis_data, prs, sec_i, non_builder_vars>>

(***************************************************************************)
(* FinalPass_agent: the grammar review, the fixes and the run.             *)
(***************************************************************************)
\* p in s
Contains(s, p) ==
    \E i \in 1..(Len(s) - Len(p) + 1) : SubSeq(s, i, i + Len(p) - 1) = p

\* int(digits)
RECURSIVE ToInt(_)
ToInt(digits) ==
    IF digits = <<>> THEN 0
    ELSE 10 * ToInt(SubSeq(digits, 1, Len(digits) - 1)) + DigitValue(digits[Len(digits)])

\* re.search(r'SLIDE\s*(\d+)', line): whether it matches, and int(group(1))
slide_match(line) ==
    LET word == <<"S","L","I","D","E">>
        DigitsFrom(i) == SpaceRunEnd(line, i + Len(word))
        hits == {i \in 1..(Len(line) - Len(word) + 1) :
                    /\ SubSeq(line, i, i + Len(word) - 1) = word
                    /\ DigitRunEnd(line, DigitsFrom(i)) > DigitsFrom(i)}
    IN  IF hits = {} THEN [found |-> FALSE, num |-> 0]
        ELSE LET i == SetMin(hits)
             IN  [found |-> TRUE,
                  num |-> ToInt(SubSeq(line, DigitsFrom(i),
                                       DigitRunEnd(line, DigitsFrom(i)) - 1))]

\* grammar_issues without the test for 'OK'
grammar_issues_IgnoringOK(feedback) ==
    LET lines == Split(feedback, "\n")
    IN  Concat([k \in 1..Len(lines) |->
            IF /\ Contains(lines[k], <<"S","L","I","D","E">>)
               /\ Contains(lines[k], <<"-",">">>)
               /\ slide_match(lines[k]).found
            THEN <<QAIssue(slide_match(lines[k]).num, "grammar", "info")>>
            ELSE <<>>])

\* lines 260-273: the issues check_grammar_and_clarity appends
grammar_issues(feedback) ==
    LET lines == Split(feedback, "\n")
    IN  Concat([k \in 1..Len(lines) |->
            IF /\ Contains(lines[k], <<"S","L","I","D","E">>)
               /\ ~Contains(lines[k], <<"O","K">>)
               /\ Contains(lines[k], <<"-",">">>)
               /\ slide_match(lines[k]).found
            THEN <<QAIssue(slide_match(lines[k]).num, "grammar", "info")>>
            ELSE <<>>])

\* lines 284-291: the numbers of the slides generate_fixes will send
problem_slides(slides_data) ==
    LET Flagged(i) == /\ ~bullet_rule_skips(i, Len(slides_data))
                      /\ \/ slides_data[i].bullet_count < MIN_BULLETS
                         \/ slides_data[i].bullet_count > MAX_BULLETS
    IN  SelectSeq([i \in 1..Len(slides_data) |-> i], Flagged)

\* lines 344-350
notes_text(fixed) ==
    <<"S","U","G","G","E","S","T","E","D"," ","F","I","X"," ","(","3"," ","b","u","l","l","e","t","s",")",":","\n","\n">> \o fixed
    \o <<"\n","\n","-","-","-","\n","O","r","i","g","i","n","a","l"," ","h","a","d"," ","i","s","s","u","e","s"," ","w","i","t","h"," ","b","u","l","l","e","t"," ","c","o","u","n","t",".","\n","R","e","v","i","e","w"," ","a","n","d"," ","a","p","p","l","y"," ","m","a","n","u","a","l","l","y"," ","i","f"," ","n","e","e","d","e","d",".">>

\* apply_fixes_to_presentation writing the fix into the slide body
RECURSIVE apply_fixes_IntoBody(_, _)
apply_fixes_IntoBody(deck, fs) ==
    IF fs = <<>> THEN deck
    ELSE LET f == Head(fs)
             next == IF f.num <= Len(deck)
                     THEN [deck EXCEPT ![f.num].shapes[2].paras = Split(f.fixed, "\n")]
                     ELSE deck
         IN  apply_fixes_IntoBody(next, Tail(fs))

\* apply_fixes_to_presentation: the fixes go to the speaker notes
RECURSIVE apply_fixes_to_presentation(_, _)
apply_fixes_to_presentation(deck, fs) ==
    IF fs = <<>> THEN deck
    ELSE LET f == Head(fs)
             next == IF f.num <= Len(deck)
                     THEN [deck EXCEPT ![f.num].has_notes = TRUE,
                                       ![f.num].notes = notes_text(f.fixed)]
                     ELSE deck
         IN  apply_fixes_to_presentation(next, Tail(fs))

\* the elements of a finite set of numbers in increasing order
RECURSIVE Sorted(_)
Sorted(S) == IF S = {} THEN <<>> ELSE <<SetMin(S)>> \o Sorted(S \ {SetMin(S)})

\* generate_qa_report: the counts of the summary table, the issues grouped
\* by slide in increasing slide number, and the raw grammar reply
generate_qa_report(slides_data, feedback, found) ==
    LET Count(sev) == Len(SelectSeq(found, LAMBDA q : q.severity = sev))
        nums == Sorted({found[k].slide_num : k \in 1..Len(found)})
    IN  [slides_analyzed |-> Len(slides_data),
         issues_found |-> Len(found),
         errors |-> Count("error"),
         warnings |-> Count("warning"),
         info |-> Count("info"),
         by_slide |-> [k \in 1..Len(nums) |->
                         [slide_num |-> nums[k],
                          issues |-> SelectSeq(found, LAMBDA q : q.slide_num = nums[k])]],
         grammar |-> feedback]

NotSaved == [saved |-> FALSE, content |-> <<>>]
Saved(content) == [saved |-> TRUE, content |-> content]

\* decks handed to the quality pass: slide templates by number of body
\* paragraphs longer than 10 characters
CountSlide(k) ==
    [layout |-> "title_content",
     shapes |-> << [is_title |-> TRUE, paras |-> <<IF k = 0 THEN <<>> ELSE <<"3","."," ","T","o","p","i","c">>>>],
                   [is_title |-> FALSE,
                    paras |-> IF k = 0 THEN << <<>> >>
                              ELSE [j \in 1..k |-> <<"A"," ","c","o","u","n","t","a","b","l","e"," ","b","u","l","l","e","t">>]] >>,
     has_notes |-> FALSE, notes |-> <<>>]

QASlides == {CountSlide(k) : k \in {0, 1, 2, 6, 7}}

\* a deck as the VC builder makes it
BuiltDeck ==
    << VC_add_title_slide(Sector, Region),
       VC_add_content_slide(<<"E","x","e","c","u","t","i","v","e"," ","S","u","m","m","a","r","y">>, VC_condense_executive_summary(ReplyTwo)),
       VC_add_content_slide(<<"1","."," ","T","a","x","o","n","o","m","y">>, VC_condense_to_three_bullets(ReplyThree)),
       VC_add_content_slide(<<"2","."," ","M","a","c","r","o">>, VC_condense_to_three_bullets(ReplyFour)),
       VC_add_closing_slide(Sector) >>

QADecks == UNION {[1..n -> QASlides] : n \in 0..MaxQASlides} \cup {BuiltDeck}

GrammarReplies ==
    { <<"S","L","I","D","E"," ","1",":"," ","O","K","\n","S","L","I","D","E"," ","2",":"," ","O","K","\n","S","L","I","D","E"," ","3",":"," ","O","K">>,
      <<"S","L","I","D","E"," ","3",":"," ","t","e","h"," ","m","a","r","k","e","t"," ","-",">"," ","t","h","e"," ","m","a","r","k","e","t","\n","S","L","I","D","E"," ","2",":"," ","O","K">>,
      <<"A","l","l"," ","s","l","i","d","e","s"," ","l","o","o","k"," ","f","i","n","e",".">> }

FixReplies == { <<"-"," ","o","n","e","\n","-"," ","t","w","o","\n","-"," ","t","h","r","e","e","\n">>, <<>> }

QA_Idle ==
    /\ qa_pc = "idle"
    /\ qa_loaded = <<>> /\ qa_prs = <<>>
    /\ issues = <<>> /\ grammar_feedback = <<>>
    /\ fixes = <<>> /\ fix_todo = <<>>
    /\ reviewed = NotSaved /\ report = NotSaved

Rerun_Idle ==
    /\ qa_runs = 0
    /\ earlier_issues = <<>>
    /\ earlier_raised = FALSE

\* a variant of reset_issues that leaves the list as the earlier run left it
reset_issues_Kept(held) == held

\* run, line 459: self.issues = [], whatever the list held
reset_issues(held) == <<>>

\* run, lines 459-474: reset, load, extract, the three heuristic checks
run_begin(deck) ==
    /\ qa_loaded' = deck
    /\ qa_prs' = deck
    /\ issues' = LET slides_data == extract_slide_content(deck)
                 IN  reset_issues(issues)
                     \o validate_content_completeness(slides_data)
                     \o validate_bullet_count(slides_data)
                     \o validate_text_overflow(slides_data)
    /\ grammar_feedback' = <<>>
    /\ fixes' = <<>> /\ fix_todo' = <<>>
    /\ reviewed' = NotSaved /\ report' = NotSaved
    /\ qa_pc' = "grammar"

\* the first call of run on a FinalPassAgent instance
QA_Start(deck) ==
    /\ qa_pc = "idle"
    /\ run_begin(deck)
    /\ UNCHANGED non_qa_vars

\* a further call of run on the same instance, after an earlier call has
\* returned or raised; the bot keeps one instance for all its commands
QA_RunAgain(deck) ==
    /\ qa_pc \in {"done", "failed"}
    /\ qa_runs < MaxReruns
    /\ run_begin(deck)
    /\ qa_runs' = qa_runs + 1
    /\ earlier_issues' = issues
    /\ earlier_raised' = (qa_pc = "failed")
    /\ UNCHANGED <<builder_vars, parse_vars, bot_vars, file_vars, pipe_vars>>

\* run, lines 484-505, once generate_fixes has returned fs
QA_Finish(fs, found, feedback) ==
    /\ fixes' = fs
    /\ fix_todo' = <<>>
    /\ qa_prs' = IF fs # <<>> THEN apply_fixes_to_presentation(qa_prs, fs) ELSE qa_prs
    /\ report' = Saved(generate_qa_report(extract_slide_content(qa_loaded),
                                          feedback, found))
    /\ reviewed' = Saved(qa_prs')
    /\ qa_pc' = "done"

\* run, line 478, and generate_fixes up to its first model call
QA_Grammar(response) ==
    /\ qa_pc = "grammar"
    /\ issues' = issues \o grammar_issues(response)
    /\ grammar_feedback' = response
    /\ LET todo == problem_slides(extract_slide_content(qa_loaded))
       IN  IF todo = <<>>
           THEN QA_Finish(<<>>, issues', response)
           ELSE /\ fix_todo' = todo
                /\ qa_pc' = "fixes"
                /\ UNCHANGED <<fixes, qa_prs, reviewed, report>>
    /\ UNCHANGED <<qa_loaded, non_qa_vars>>

\* generate_fixes, lines 297-327: one iteration of the loop
QA_Fix(response) ==
    /\ qa_pc = "fixes"
    /\ LET num == Head(fix_todo)
           fs == Append(fixes,
                        [num |-> num,
                         original |-> extract_slide_content(qa_loaded)[num].total_text,
                         fixed |-> Strip(response)])
       IN  IF Tail(fix_todo) = <<>>
           THEN QA_Finish(fs, issues, grammar_feedback)
           ELSE /\ fixes' = fs
                /\ fix_todo' = Tail(fix_todo)
                /\ UNCHANGED <<qa_pc, qa_prs, reviewed, report>>
    /\ UNCHANGED <<qa_loaded, issues, grammar_feedback, non_qa_vars>>

\* self.llm.invoke raises in check_grammar_and_clarity or generate_fixes
QA_InvokeRaises ==
    /\ qa_pc \in {"grammar", "fixes"}
    /\ qa_pc' = "failed"
    /\ UNCHANGED <<qa_loaded, qa_prs, issues, grammar_feedback, fixes, fix_todo,
                   reviewed, report, non_qa_vars>>

(***************************************************************************)
(* TelegramVCBot: the /vc and /networking handlers.  One step per agent    *)
(* call; the messages sent between two calls belong to the step of the     *)
(* earlier call.  Agent runs are blocking calls, so nothing interleaves.   *)
(***************************************************************************)
\* the agent fields in the order _get_agents assigns them
BotAgentNames ==
    << "slide1", "slide2", "slide3", "slide4", "slide5", "outline", "powerpoint",
       "finalpass", "networking_research", "networking_outline",
       "networking_powerpoint" >>

AgentIndex(a) == CHOOSE i \in 1..Len(BotAgentNames) : BotAgentNames[i] = a

\* " ".join(tokens)
RECURSIVE JoinSpaces(_)
JoinSpaces(tokens) ==
    IF tokens = <<>> THEN <<>>
    ELSE IF Len(tokens) = 1 THEN tokens[1]
    ELSE tokens[1] \o <<" ">> \o JoinSpaces(Tail(tokens))

\* parse_command_args taking the last token as region whenever there are two
\* tokens or more
parse_command_args_LastIsRegion(args) ==
    IF Len(args) > 1
    THEN [sector |-> JoinSpaces(SubSeq(args, 1, Len(args) - 1)),
          region |-> args[Len(args)]]
    ELSE [sector |-> args[1], region |-> <<"U","S">>]

\* vc_command lines 198-204, networking_command lines 232-237, for args that
\* are not empty
parse_command_args(args) ==
    LET last == args[Len(args)]
        first_sector == IF Len(args) > 1
                        THEN JoinSpaces(SubSeq(args, 1, Len(args) - 1))
                        ELSE args[1]
        first_region == IF Len(args) > 1 /\ Len(last) = 2 THEN last ELSE <<"U","S">>
    IN  IF Len(args) > 1 /\ Len(last) > 2
        THEN [sector |-> JoinSpaces(args), region |-> <<"U","S">>]
        ELSE [sector |-> first_sector, region |-> first_region]

Msg(what) == [kind |-> "msg", what |-> what]
Doc(what) == [kind |-> "doc", what |-> what]
Call(agent) == [kind |-> "call", what |-> agent]
Ret(agent) == [kind |-> "returned", what |-> agent]
\* why: "external" for an exception out of the agent's run, "missing" for
\* the AttributeError of calling run on None
Raise(agent, why) == [kind |-> "raised", what |-> agent, why |-> why]

\* the agents each pipeline calls, in the order of the calls
PipelineStages(cmd) ==
    IF cmd = "vc"
    THEN << "slide1", "slide2", "slide3", "slide4", "slide5", "outline",
            "powerpoint", "finalpass" >>
    ELSE << "networking_research", "networking_outline", "networking_powerpoint" >>

\* what the pipeline sends before its first agent call
FirstMessages(cmd) ==
    IF cmd = "vc"
    THEN << Msg("[Phase 1/4]"), Msg("-> trends") >>
    ELSE << Msg("[Phase 1/3]"), Msg("-> networking research") >>

\* what the pipeline sends once the call of an agent has returned, up to
\* its next agent call or its end
MessagesAfter(agent) ==
    CASE agent = "slide1" -> << Msg("-> ecosystem") >>
      [] agent = "slide2" -> << Msg("-> macro thesis") >>
      [] agent = "slide3" -> << Msg("-> filters") >>
      [] agent = "slide4" -> << Msg("-> companies") >>
      [] agent = "slide5" -> << Msg("[OK] Phase 1 complete"), Msg("[Phase 2/4]") >>
      [] agent = "outline" -> << Msg("[OK] Phase 2 complete"), Msg("[Phase 3/4]") >>
      [] agent = "powerpoint" -> << Msg("[OK] Phase 3 complete"), Msg("[Phase 4/4]") >>
      [] agent = "finalpass" ->
            << Msg("[OK] Phase 4 complete"), Doc("reviewed deck"), Msg("[COMPLETE]") >>
      [] agent = "networking_research" ->
            << Msg("[OK] Phase 1 complete"), Msg("[Phase 2/3]") >>
      [] agent = "networking_outline" ->
            << Msg("[OK] Phase 2 complete"), Msg("[Phase 3/3]") >>
      [] agent = "networking_powerpoint" ->
            << Msg("[OK] Phase 3 complete"), Doc("networking deck"), Msg("[COMPLETE]") >>

\* MessagesOnRaise with the quality pass's except block sending the reviewed
\* deck's fallback twice
MessagesOnRaise_TwoDecks(agent) ==
    CASE agent \in {"powerpoint", "networking_powerpoint"} ->
            << Msg("[ERROR] PowerPoint generation failed") >>
      [] agent = "finalpass" ->
            << Doc("reviewed deck"), Doc("original deck"), Msg("[COMPLETE]") >>
      [] agent \in {"networking_research", "networking_outline"} ->
            << Msg("[ERROR] Error generating networking strategy") >>
      [] OTHER -> << Msg("[ERROR] Error generating thesis") >>

\* MessagesOnRaise with the deck builders' except blocks re-raising after
\* their own message instead of returning
MessagesOnRaise_Reraised(agent) ==
    CASE agent = "powerpoint" ->
            << Msg("[ERROR] PowerPoint generation failed"),
               Msg("[ERROR] Error generating thesis") >>
      [] agent = "networking_powerpoint" ->
            << Msg("[ERROR] PowerPoint generation failed"),
               Msg("[ERROR] Error generating networking strategy") >>
      [] agent = "finalpass" -> << Doc("original deck"), Msg("[COMPLETE]") >>
      [] agent \in {"networking_research", "networking_outline"} ->
            << Msg("[ERROR] Error generating networking strategy") >>
      [] OTHER -> << Msg("[ERROR] Error generating thesis") >>

\* what the handler sends when the call of an agent raised: the deck
\* builders' except blocks send their own message and return; the quality
\* pass's except block sends the deck of phase 3 and the run goes on to
\* its last message; every other exception is re-raised to the command
\* handler's except block
MessagesOnRaise(agent) ==
    CASE agent \in {"powerpoint", "networking_powerpoint"} ->
            << Msg("[ERROR] PowerPoint generation failed") >>
      [] agent = "finalpass" -> << Doc("original deck"), Msg("[COMPLETE]") >>
      [] agent \in {"networking_research", "networking_outline"} ->
            << Msg("[ERROR] Error generating networking strategy") >>
      [] OTHER -> << Msg("[ERROR] Error generating thesis") >>

\* StageAfter with the deck builder called before the outline compiler
StageAfter_DeckBeforeOutline(cmd, agent) ==
    CASE agent = "slide5" -> "powerpoint"
      [] agent = "powerpoint" -> "outline"
      [] agent = "outline" -> "finalpass"
      [] agent = "finalpass" -> "idle"
      [] agent = "networking_powerpoint" -> "idle"
      [] OTHER -> BotAgentNames[AgentIndex(agent) + 1]

\* the agent called after this one, "idle" after the last
StageAfter(cmd, agent) ==
    LET stages == PipelineStages(cmd)
        i == CHOOSE k \in 1..Len(stages) : stages[k] = agent
    IN  IF i = Len(stages) THEN "idle" ELSE stages[i + 1]

\* command texts the user sends: tokens of one, two and more characters
ArgTokens == { <<"F","i","n","t","e","c","h">>, <<"A","I">>, <<"D">> }
ArgLists == UNION { [1..n -> ArgTokens] : n \in 0..MaxArgs }

Bot_Idle ==
    /\ agents_built = 0 /\ bot_pc = "idle" /\ command = "none" /\ bot_args = <<>>
    /\ bot_sector = <<>> /\ bot_region = <<>> /\ events = <<>>
    /\ invocations = 0 /\ run_failed = FALSE /\ failed_before = FALSE

\* vc_command / networking_command called without arguments: lines 191-195,
\* 226-230
Bot_Usage(cmd) ==
    /\ bot_pc = "idle" /\ invocations < MaxInvocations
    /\ command' = cmd
    /\ bot_args' = <<>>
    /\ bot_sector' = <<>> /\ bot_region' = <<>>
    /\ events' = << Msg("usage") >>
    /\ invocations' = invocations + 1
    /\ run_failed' = FALSE
    /\ failed_before' = (failed_before \/ run_failed)
    /\ UNCHANGED <<agents_built, bot_pc, non_bot_vars>>

\* vc_command lines 197-209, networking_command lines 232-242
Bot_Command(cmd, args) ==
    /\ bot_pc = "idle" /\ invocations < MaxInvocations
    /\ args # <<>>
    /\ command' = cmd
    /\ bot_args' = args
    /\ bot_sector' = parse_command_args(args).sector
    /\ bot_region' = parse_command_args(args).region
    /\ events' = << Msg("[STARTING]") >>
    /\ invocations' = invocations + 1
    /\ run_failed' = FALSE
    /\ failed_before' = (failed_before \/ run_failed)
    /\ bot_pc' = "get_agents"
    /\ UNCHANGED <<agents_built, non_bot_vars>>

\* _get_agents returns: lines 104-129, and the pipeline's first messages
Bot_GetAgents ==
    /\ bot_pc = "get_agents"
    /\ agents_built' = IF agents_built = 0 THEN Len(BotAgentNames) ELSE agents_built
    /\ events' = events \o FirstMessages(command)
    /\ bot_pc' = PipelineStages(command)[1]
    /\ UNCHANGED <<command, bot_args, bot_sector, bot_region, invocations, run_failed, failed_before,
                   non_bot_vars>>

\* the constructor of agent j raises inside _get_agents: the fields before
\* it stay assigned, the exception reaches the command handler's except
Bot_ConstructorRaises(j) ==
    /\ bot_pc = "get_agents" /\ agents_built = 0
    /\ agents_built' = j - 1
    /\ events' = events \o << Raise("constructor", "external"),
                               Msg(IF command = "vc"
                                   THEN "[ERROR] Error generating thesis"
                                   ELSE "[ERROR] Error generating networking strategy") >>
    /\ run_failed' = TRUE
    /\ bot_pc' = "idle"
    /\ UNCHANGED <<command, bot_args, bot_sector, bot_region, invocations, failed_before, non_bot_vars>>

\* agents[bot_pc].run(...) returns
Bot_AgentReturns ==
    /\ bot_pc \notin {"idle", "get_agents"}
    /\ AgentIndex(bot_pc) <= agents_built
    /\ events' = events \o << Call(bot_pc), Ret(bot_pc) >> \o MessagesAfter(bot_pc)
    /\ bot_pc' = StageAfter(command, bot_pc)
    /\ UNCHANGED <<agents_built, command, bot_args, bot_sector, bot_region, invocations, run_failed,
                   failed_before, non_bot_vars>>

\* what every raising agent call does to the handler
Bot_Raised(why) ==
    /\ events' = events \o << Call(bot_pc), Raise(bot_pc, why) >>
                        \o MessagesOnRaise(bot_pc)
    /\ run_failed' = TRUE
    /\ bot_pc' = "idle"
    /\ UNCHANGED <<agents_built, command, bot_args, bot_sector, bot_region, invocations, failed_before,
                   non_bot_vars>>

\* agents[bot_pc].run(...) raises
Bot_AgentRaises ==
    /\ bot_pc \notin {"idle", "get_agents"}
    /\ AgentIndex(bot_pc) <= agents_built
    /\ Bot_Raised("external")

\* agents[bot_pc] is None: .run raises AttributeError
Bot_AgentMissing ==
    /\ bot_pc \notin {"idle", "get_agents"}
    /\ AgentIndex(bot_pc) > agents_built
    /\ Bot_Raised("missing")

(***************************************************************************)
(* The agents' runs on the Outputs directory: a research agent             *)
(* (Slide1_Agent), the deck builder (POWERPOINT_VC_AGENT) and the quality  *)
(* pass (FinalPass_agent), one invocation after another.  What a deck      *)
(* holds is left out here; create_presentation and the checks of the       *)
(* quality pass are steps that return or raise.                            *)
(***************************************************************************)
UpperChars == <<"A","B","C","D","E","F","G","H","I","J","K","L","M","N","O","P","Q","R","S","T","U","V","W","X","Y","Z">>
LowerChars == <<"a","b","c","d","e","f","g","h","i","j","k","l","m","n","o","p","q","r","s","t","u","v","w","x","y","z">>

\* sector.lower().replace(" ", "_")
sector_slug(name) ==
    [i \in 1..Len(name) |->
        IF name[i] = " " THEN "_"
        ELSE IF \E k \in 1..Len(UpperChars) : UpperChars[k] = name[i]
             THEN LowerChars[CHOOSE k \in 1..Len(UpperChars) : UpperChars[k] = name[i]]
        ELSE name[i]]

\* datetime.now().strftime of year to second, within one minute
TimeStamp(sec) ==
    <<"2","0","2","6","1","1","0","5","_","1","2","0","0">> \o << DigitChars[(sec \div 10) + 1], DigitChars[(sec % 10) + 1] >>

\* f"slide1_{sector_slug}_{timestamp}.md"
research_filename(name, sec) ==
    <<"s","l","i","d","e","1","_">> \o sector_slug(name) \o <<"_">> \o TimeStamp(sec) \o <<".","m","d">>
\* the compiled thesis, as load_thesis looks for it
thesis_filename(name, sec) ==
    <<"v","c","_","t","h","e","s","i","s","_">> \o sector_slug(name) \o <<"_">> \o TimeStamp(sec) \o <<".","m","d">>
\* f"vc_thesis_{sector_slug}_{timestamp}.pptx"
deck_filename(name, sec) ==
    <<"v","c","_","t","h","e","s","i","s","_">> \o sector_slug(name) \o <<"_">> \o TimeStamp(sec) \o <<".","p","p","t","x">>
\* f"vc_thesis_{sector_slug}_{timestamp}_reviewed.pptx"
reviewed_filename(name, sec) ==
    <<"v","c","_","t","h","e","s","i","s","_">> \o sector_slug(name) \o <<"_">> \o TimeStamp(sec) \o <<"_","r","e","v","i","e","w","e","d",".","p","p","t","x">>
\* f"qa_report_{sector_slug}_{timestamp}.md"
report_filename(name, sec) ==
    <<"q","a","_","r","e","p","o","r","t","_">> \o sector_slug(name) \o <<"_">> \o TimeStamp(sec) \o <<".","m","d">>

\* str.endswith(p)
EndsWith(t, p) == Len(t) >= Len(p) /\ SubSeq(t, Len(t) - Len(p) + 1, Len(t)) = p

\* Path.glob(prefix + "*" + suffix) on one file name
GlobMatch(name, prefix, suffix) ==
    /\ Len(name) >= Len(prefix) + Len(suffix)
    /\ StartsWith(name, prefix) /\ EndsWith(name, suffix)

\* load_thesis, lines 72-74: the files the glob finds
thesis_candidates(fs, name) ==
    {f \in fs : GlobMatch(f.name, <<"v","c","_","t","h","e","s","i","s","_">> \o sector_slug(name) \o <<"_">>, <<".","m","d">>)}

\* load_presentation_candidates without the "_reviewed" filter
presentation_candidates_Unfiltered(fs, name) ==
    {f \in fs : GlobMatch(f.name, <<"v","c","_","t","h","e","s","i","s","_">> \o sector_slug(name) \o <<"_">>, <<".","p","p","t","x">>)}

\* load_presentation, lines 75-77: the files the glob finds, without those
\* whose name holds "_reviewed"
presentation_candidates(fs, name) ==
    {f \in fs : /\ GlobMatch(f.name, <<"v","c","_","t","h","e","s","i","s","_">> \o sector_slug(name) \o <<"_">>, <<".","p","p","t","x">>)
                 /\ ~Contains(f.name, <<"_","r","e","v","i","e","w","e","d">>)}

\* the oldest of the files instead of the newest
latest_files_Oldest(candidates) ==
    {f \in candidates : \A g \in candidates : g.mtime >= f.mtime}

\* max(matching_files, key=lambda p: p.stat().st_mtime): among files of the
\* same modification time the one the glob lists first, which is any
latest_files(candidates) ==
    {f \in candidates : \A g \in candidates : g.mtime <= f.mtime}

\* open(path, 'w') / prs.save(path): a file of that name is replaced
write_file(fs, name, by) ==
    {f \in fs : f.name # name}
    \cup {[name |-> name, mtime |-> now, by |-> by]}

\* the invocation has written one more file; replaced tells whether a file
\* of that name was there
has_written(run, fs, name) ==
    [run EXCEPT !.wrote = @ + 1,
                !.replaced = @ \/ \E f \in fs : f.name = name]

\* the searches of Slide1Agent.search_market_data, in the order made
Slide1Searches ==
    << "web market_size", "news market_size", "web trends", "news trends",
       "web regulations", "news regulations", "web business_model",
       "news business_model" >>

FileSectors == { <<"F","i","n">>, <<"F","i","n"," ","T","e","c","h">> }

\* compiled theses that may lie in the directory before the first run
InitialTheses ==
    { [name |-> thesis_filename(sec, 0), mtime |-> 0, by |-> "outline"] :
        sec \in FileSectors }

\* a pptx_file path at which no file lies
MissingDeck == <<"v","c","_","t","h","e","s","i","s","_","f","i","n","_","m","o","v","e","d",".","p","p","t","x">>

NoRun ==
    [agent |-> "none", sector |-> <<>>, given |-> <<>>, loaded |-> <<>>,
     loaded_by |-> "none", searches |-> 0, failed |-> 0, llm_calls |-> 0,
     wrote |-> 0, replaced |-> FALSE,
     outcome |-> "none", raised_in |-> "none"]

Files_Idle ==
    /\ files = {} /\ now = 0 /\ second = 0
    /\ agent_pc = "idle" /\ cur = NoRun /\ nruns = 0

\* time passes; the second changes or not
Clock_Tick ==
    /\ now < MaxTicks
    /\ now' = now + 1
    /\ second' \in {second, second + 1}
    /\ UNCHANGED <<files, agent_pc, cur, nruns, non_file_vars>>

\* agent.run(sector) is called; given is the pptx_file handed to the
\* quality pass, <<>> for none
Run_Start(agent, name, given) ==
    /\ agent_pc = "idle" /\ nruns < MaxRuns
    /\ given # <<>> => agent = "finalpass"
    /\ nruns' = nruns + 1
    /\ cur' = [NoRun EXCEPT !.agent = agent, !.sector = name, !.given = given,
                             !.outcome = "running"]
    /\ agent_pc' = IF agent = "slide1" THEN "search" ELSE "load"
    /\ UNCHANGED <<files, now, second, non_file_vars>>

\* a search wrapper without the except block
web_search_Unguarded(provider_raises) ==
    IF provider_raises THEN "raised" ELSE "results"

\* DuckDuckGoSearch.web_search and news_search: the provider's results, or
\* [] from the except block when the provider raises
web_search(provider_raises) ==
    IF provider_raises THEN "empty" ELSE "results"

\* Slide1Agent.search_market_data, lines 88-95: one web_search or
\* news_search of the loop
Research_Search(provider_raises) ==
    /\ agent_pc = "search"
    /\ IF web_search(provider_raises) = "raised"
       THEN /\ cur' = [cur EXCEPT !.outcome = "raised", !.raised_in = "search"]
            /\ agent_pc' = "idle"
       ELSE /\ cur' = [cur EXCEPT !.searches = @ + 1,
                                  !.failed = IF web_search(provider_raises) = "empty"
                                             THEN @ + 1 ELSE @]
            /\ agent_pc' = IF cur.searches + 1 = Len(Slide1Searches)
                            THEN "synthesize" ELSE "search"
    /\ UNCHANGED <<files, now, second, nruns, non_file_vars>>

\* Slide1Agent.research_trends, line 169: self.llm.invoke returns
Research_Synthesize ==
    /\ agent_pc = "synthesize"
    /\ cur' = [cur EXCEPT !.llm_calls = @ + 1]
    /\ agent_pc' = "save"
    /\ UNCHANGED <<files, now, second, nruns, non_file_vars>>

\* PowerPointAgent.load_thesis, lines 70-81, called with the sector only
Deck_Load ==
    /\ agent_pc = "load" /\ cur.agent = "powerpoint"
    /\ LET found == thesis_candidates(files, cur.sector)
       IN  IF found = {}
           THEN /\ cur' = [cur EXCEPT !.outcome = "raised", !.raised_in = "load"]
                /\ agent_pc' = "idle"
           ELSE /\ \E f \in latest_files(found) :
                      cur' = [cur EXCEPT !.loaded = f.name, !.loaded_by = f.by]
                /\ agent_pc' = "work"
    /\ UNCHANGED <<files, now, second, nruns, non_file_vars>>

\* FinalPassAgent.load_presentation, lines 70-85
Review_Load ==
    /\ agent_pc = "load" /\ cur.agent = "finalpass"
    /\ LET found == presentation_candidates(files, cur.sector)
           given == {f \in files : f.name = cur.given}
       IN  IF given # {}
           THEN /\ \E f \in given :
                      cur' = [cur EXCEPT !.loaded = f.name, !.loaded_by = f.by]
                /\ agent_pc' = "work"
           ELSE IF found = {}
           THEN /\ cur' = [cur EXCEPT !.outcome = "raised", !.raised_in = "load"]
                /\ agent_pc' = "idle"
           ELSE /\ \E f \in latest_files(found) :
                      cur' = [cur EXCEPT !.loaded = f.name, !.loaded_by = f.by]
                /\ agent_pc' = "work"
    /\ UNCHANGED <<files, now, second, nruns, non_file_vars>>

\* create_presentation, or the checks and fixes of the quality pass, return
Agent_WorkReturns ==
    /\ agent_pc = "work"
    /\ agent_pc' = "save"
    /\ UNCHANGED <<files, now, second, cur, nruns, non_file_vars>>

\* a run whose model call raised goes on as if the call had returned
on_model_raise_Swallowed(run) ==
    [run EXCEPT !.raised_in = "llm"]

\* no try block is around self.llm.invoke or around the agents' steps in
\* run: the exception leaves run
on_model_raise(run) ==
    [run EXCEPT !.outcome = "raised", !.raised_in = "llm"]

\* a self.llm.invoke inside the run raises
Agent_ModelRaises ==
    /\ agent_pc \in {"synthesize", "work"}
    /\ cur' = [on_model_raise(cur) EXCEPT
                  !.llm_calls = IF cur.agent = "slide1" THEN @ + 1 ELSE @]
    /\ agent_pc' = IF on_model_raise(cur).outcome = "raised" THEN "idle" ELSE "save"
    /\ UNCHANGED <<files, now, second, nruns, non_file_vars>>

\* save_research / PowerPointAgent.save_presentation /
\* FinalPassAgent.save_presentation
Agent_Save ==
    /\ agent_pc = "save"
    /\ LET name == CASE cur.agent = "slide1" -> research_filename(cur.sector, second)
                      [] cur.agent = "powerpoint" -> deck_filename(cur.sector, second)
                      [] cur.agent = "finalpass" -> reviewed_filename(cur.sector, second)
       IN  /\ files' = write_file(files, name, cur.agent)
           /\ IF cur.agent = "finalpass"
              THEN /\ agent_pc' = "save_report"
                   /\ cur' = has_written(cur, files, name)
              ELSE /\ agent_pc' = "idle"
                   /\ cur' = [has_written(cur, files, name) EXCEPT !.outcome = "returned"]
    /\ UNCHANGED <<now, second, nruns, non_file_vars>>

\* FinalPassAgent.save_report
Review_SaveReport ==
    /\ agent_pc = "save_report"
    /\ LET name == report_filename(cur.sector, second)
       IN  /\ files' = write_file(files, name, "finalpass")
           /\ cur' = [has_written(cur, files, name) EXCEPT !.outcome = "returned"]
    /\ agent_pc' = "idle"
    /\ UNCHANGED <<now, second, nruns, non_file_vars>>

(***************************************************************************)
(* Pipeline runs (run_research_pipeline, phases 2 to 4) on the Outputs     *)
(* directory: the outline compiler writes the thesis, the deck builder     *)
(* loads a thesis by sector and writes the deck, the quality pass is       *)
(* handed the deck's path and writes the reviewed deck and the report.     *)
(* Every agent call returns.  Runs of one bot process follow one another;  *)
(* runs of two processes on one directory interleave between file          *)
(* operations.                                                             *)
(***************************************************************************)
NoPipe ==
    [stage |-> "idle", sector |-> <<>>, thesis |-> <<>>, loaded_thesis |-> <<>>,
     deck |-> <<>>, loaded_deck |-> <<>>, reviewed |-> <<>>, qa_report |-> <<>>]

Pipes_Idle ==
    /\ pipes = [r \in 1..MaxPipes |-> NoPipe]
    /\ owners = {}

\* the file under a name is now the one run r wrote
owned_after(name, r) ==
    {p \in owners : p[1] # name} \cup {<<name, r>>}

\* vc_command: run r starts; phase 1 writes research documents, which no
\* later stage of the pipeline loads
Pipe_Start(r, name, overlap) ==
    /\ pipes[r].stage = "idle"
    /\ r > 1 => pipes[r - 1].stage # "idle"
    /\ overlap \/ \A q \in 1..MaxPipes : pipes[q].stage \in {"idle", "done", "failed"}
    /\ overlap => \A q \in 1..MaxPipes : pipes[q].stage # "idle" => pipes[q].sector = name
    /\ pipes' = [pipes EXCEPT ![r] = [NoPipe EXCEPT !.stage = "phase2", !.sector = name]]
    /\ UNCHANGED <<files, now, second, owners, non_pipe_vars>>

\* phase 2, agents['outline'].run(sector, region): the outline compiler
\* writes one new thesis file, under the name load_thesis looks for
Pipe_Outline(r) ==
    /\ pipes[r].stage = "phase2"
    /\ LET name == thesis_filename(pipes[r].sector, second)
       IN  /\ files' = write_file(files, name, "outline")
           /\ owners' = owned_after(name, r)
           /\ pipes' = [pipes EXCEPT ![r].stage = "phase3_load", ![r].thesis = name]
    /\ UNCHANGED <<now, second, non_pipe_vars>>

\* phase 3, agents['powerpoint'].run(sector): load_thesis by sector
Pipe_DeckLoad(r) ==
    /\ pipes[r].stage = "phase3_load"
    /\ LET found == thesis_candidates(files, pipes[r].sector)
       IN  IF found = {}
           THEN pipes' = [pipes EXCEPT ![r].stage = "failed"]
           ELSE \E f \in latest_files(found) :
                   pipes' = [pipes EXCEPT ![r].stage = "phase3_save",
                                          ![r].loaded_thesis = f.name]
    /\ UNCHANGED <<files, now, second, owners, non_pipe_vars>>

\* phase 3: save_presentation
Pipe_DeckSave(r) ==
    /\ pipes[r].stage = "phase3_save"
    /\ LET name == deck_filename(pipes[r].sector, second)
       IN  /\ files' = write_file(files, name, "powerpoint")
           /\ owners' = owned_after(name, r)
           /\ pipes' = [pipes EXCEPT ![r].stage = "phase4_load", ![r].deck = name]
    /\ UNCHANGED <<now, second, non_pipe_vars>>

\* phase 4, agents['finalpass'].run(sector, pptx_file=pptx_path):
\* load_presentation with the deck's path and the sector
Pipe_ReviewLoad(r) ==
    /\ pipes[r].stage = "phase4_load"
    /\ LET found == presentation_candidates(files, pipes[r].sector)
           given == {f \in files : f.name = pipes[r].deck}
       IN  IF given # {}
           THEN pipes' = [pipes EXCEPT ![r].stage = "phase4_save",
                                       ![r].loaded_deck = pipes[r].deck]
           ELSE IF found = {}
           THEN pipes' = [pipes EXCEPT ![r].stage = "failed"]
           ELSE \E f \in latest_files(found) :
                   pipes' = [pipes EXCEPT ![r].stage = "phase4_save",
                                          ![r].loaded_deck = f.name]
    /\ UNCHANGED <<files, now, second, owners, non_pipe_vars>>

\* phase 4: FinalPassAgent.save_presentation
Pipe_ReviewSave(r) ==
    /\ pipes[r].stage = "phase4_save"
    /\ LET name == reviewed_filename(pipes[r].sector, second)
       IN  /\ files' = write_file(files, name, "finalpass")
           /\ owners' = owned_after(name, r)
           /\ pipes' = [pipes EXCEPT ![r].stage = "phase4_report", ![r].reviewed = name]
    /\ UNCHANGED <<now, second, non_pipe_vars>>

\* phase 4: FinalPassAgent.save_report; the run's messages follow
Pipe_ReportSave(r) ==
    /\ pipes[r].stage = "phase4_report"
    /\ LET name == report_filename(pipes[r].sector, second)
       IN  /\ files' = write_file(files, name, "finalpass")
           /\ owners' = owned_after(name, r)
           /\ pipes' = [pipes EXCEPT ![r].stage = "done", ![r].qa_report = name]
    /\ UNCHANGED <<now, second, non_pipe_vars>>

\* no document is being parsed
NoData == [sector |-> <<>>, region |-> <<>>, sections |-> <<>>]

Parse_Idle == markdown = <<>> /\ parse_pc = "off" /\ parsed = NoData

Init ==
    /\ builder \in {"vc", "net"}
    /\ thesis_data \in (IF builder = "vc" THEN VCOutlines ELSE NetOutlines)
    /\ prs = <<>>
    /\ pc = "start"
    /\ sec_i = 1
    /\ llm_log = <<>>
    /\ QA_Idle
    /\ Parse_Idle
    /\ Bot_Idle
    /\ Files_Idle
    /\ Pipes_Idle
    /\ Rerun_Idle

Next ==
    \/ VC_BeginCreate
    \/ \E r \in SummaryReplies : VC_SummarySlide(r)
    \/ \E r \in Replies : VC_SectionSlide(r)
    \/ VC_ClosingSlide
    \/ VC_InvokeRaises
    \/ Net_BeginCreate
    \/ \E r \in Replies : Net_SectionSlide(r)
    \/ Net_ClosingSlide
    \/ Net_InvokeRaises

Spec == Init /\ [][Next]_vars

(***************************************************************************)
(* The parsers alone, on documents put together from lines.                *)
(***************************************************************************)
DocLines ==
    { <<"#","#"," ","1","."," ","T","r","e","n","d","s","\n">>, <<"#","#"," ","2","."," ","M","a","c","r","o","\n">>, <<"#","#"," ","5","."," ","F","i","l","t","e","r","s","\n">>, <<"\n">>,
      <<"-"," ","a"," ","b","u","l","l","e","t","\n">>, <<"-","-","-","\n">>, <<"#","#"," ","M","e","t","h","o","d","o","l","o","g","y","\n">>,
      <<"#","#"," ","E","x","e","c","u","t","i","v","e"," ","S","u","m","m","a","r","y","\n">>, <<"*","*","R","e","g","i","o","n","*","*",":"," ","E","U","\n">> }

Documents ==
    { Concat(f) : f \in UNION { [1..n -> DocLines] : n \in 0..MaxDocLines } }

\* PowerPointAgent.run, line 377
ParseThesis ==
    /\ parse_pc = "loaded"
    /\ parsed' = parse_thesis(markdown)
    /\ parse_pc' = "thesis"
    /\ UNCHANGED <<markdown, non_parse_vars>>

\* PowerPointNetworkingAgent.run, line 322
ParseStrategy ==
    /\ parse_pc = "loaded"
    /\ parsed' = parse_strategy(markdown)
    /\ parse_pc' = "strategy"
    /\ UNCHANGED <<markdown, non_parse_vars>>

NextParse == ParseThesis \/ ParseStrategy

\* the quality pass alone, on decks given by file
InitQA ==
    /\ builder = "vc"
    /\ thesis_data = [sector |-> Sector, region |-> Region,
                      executive_summary |-> <<>>, sections |-> <<>>]
    /\ prs = <<>>
    /\ pc = "off"
    /\ sec_i = 1
    /\ llm_log = <<>>
    /\ QA_Idle
    /\ Parse_Idle
    /\ Bot_Idle
    /\ Files_Idle
    /\ Pipes_Idle
    /\ Rerun_Idle

NextQA ==
    \/ \E deck \in QADecks : QA_Start(deck)
    \/ \E r \in GrammarReplies : QA_Grammar(r)
    \/ \E r \in FixReplies : QA_Fix(r)
    \/ QA_InvokeRaises

SpecQA == InitQA /\ [][NextQA]_vars

(***************************************************************************)
(* One FinalPassAgent instance whose run is called several times, as the   *)
(* bot does with the instance _get_agents keeps.                           *)
(***************************************************************************)
\* decks handed to the runs: the built deck, one whose slides all break a
\* rule, and one with nothing to report
RerunDecks ==
    { BuiltDeck,
      <<CountSlide(0), CountSlide(7), CountSlide(1)>>,
      <<CountSlide(3), CountSlide(3)>> }

NextRerun ==
    \/ \E deck \in RerunDecks : QA_Start(deck)
    \/ \E deck \in RerunDecks : QA_RunAgain(deck)
    \/ \E r \in GrammarReplies : QA_Grammar(r)
    \/ \E r \in FixReplies : QA_Fix(r)
    \/ QA_InvokeRaises

SpecRerun == InitQA /\ [][NextRerun]_vars

(***************************************************************************)
(* The quality pass on two decks, with grammar replies put together from   *)
(* lines.                                                                  *)
(***************************************************************************)
GrammarLines ==
    { <<"S","L","I","D","E"," ","1",":"," ","O","K">>,
      <<"S","L","I","D","E"," ","3",":"," ","t","e","h"," ","m","a","r","k","e","t"," ","-",">"," ","t","h","e"," ","m","a","r","k","e","t">>,
      <<"S","L","I","D","E"," ","2",":"," ","B","O","O","K"," ","-",">"," ","b","o","o","k">>,
      <<"s","l","i","d","e"," ","2",":"," ","a"," ","-",">"," ","b">>,
      <<"S","L","I","D","E"," ","1","2"," ","-",">"," ","t","o","o"," ","l","o","n","g">>,
      <<"G","e","n","e","r","a","l",":"," ","t","i","g","h","t","e","n"," ","-",">"," ","s","h","o","r","t","e","n">>,
      <<"S","L","I","D","E",":"," ","s","e","e"," ","S","L","I","D","E","4"," ","-",">"," ","m","e","r","g","e">>,
      <<"S","L","I","D","E"," ","2"," ","h","a","s"," ","a"," ","t","y","p","o">> }

\* "\n".join(f)
RECURSIVE JoinLines(_)
JoinLines(f) ==
    IF f = <<>> THEN <<>>
    ELSE IF Len(f) = 1 THEN f[1]
    ELSE f[1] \o <<"\n">> \o JoinLines(Tail(f))

GrammarTexts ==
    { JoinLines(f) : f \in UNION { [1..n -> GrammarLines] : n \in 1..MaxReplyLines } }

\* a deck without a flagged slide and one whose third slide has one bullet
GrammarDecks ==
    { BuiltDeck, << CountSlide(3), CountSlide(3), CountSlide(1), CountSlide(3) >> }

NextGrammar ==
    \/ \E deck \in GrammarDecks : QA_Start(deck)
    \/ \E r \in GrammarTexts : QA_Grammar(r)
    \/ \E r \in FixReplies : QA_Fix(r)
    \/ QA_InvokeRaises

SpecGrammar == InitQA /\ [][NextGrammar]_vars

InitParse ==
    /\ builder = "vc"
    /\ thesis_data = [sector |-> Sector, region |-> Region,
                      executive_summary |-> <<>>, sections |-> <<>>]
    /\ prs = <<>>
    /\ pc = "off"
    /\ sec_i = 1
    /\ llm_log = <<>>
    /\ QA_Idle
    /\ markdown \in Documents
    /\ parse_pc = "loaded"
    /\ parsed = NoData
    /\ Bot_Idle
    /\ Files_Idle
    /\ Pipes_Idle
    /\ Rerun_Idle

SpecParse == InitParse /\ [][NextParse]_vars

\* no deck builder is running
Builder_Off ==
    /\ builder = "vc"
    /\ thesis_data = [sector |-> Sector, region |-> Region,
                      executive_summary |-> <<>>, sections |-> <<>>]
    /\ prs = <<>>
    /\ pc = "off"
    /\ sec_i = 1
    /\ llm_log = <<>>

\* the bot alone, every agent run either returning or raising
InitBot ==
    /\ Builder_Off
    /\ QA_Idle
    /\ Parse_Idle
    /\ Bot_Idle
    /\ Files_Idle
    /\ Pipes_Idle
    /\ Rerun_Idle

NextBot ==
    \/ \E cmd \in {"vc", "networking"} : Bot_Usage(cmd)
    \/ \E cmd \in {"vc", "networking"}, args \in ArgLists : Bot_Command(cmd, args)
    \/ Bot_GetAgents
    \/ \E j \in 1..Len(BotAgentNames) : Bot_ConstructorRaises(j)
    \/ Bot_AgentReturns
    \/ Bot_AgentRaises
    \/ Bot_AgentMissing

SpecBot == InitBot /\ [][NextBot]_vars

\* the steps inside an invocation: a constructor or an agent run that was
\* called returns or raises
Bot_Step ==
    \/ Bot_GetAgents
    \/ \E j \in 1..Len(BotAgentNames) : Bot_ConstructorRaises(j)
    \/ Bot_AgentReturns
    \/ Bot_AgentRaises
    \/ Bot_AgentMissing

\* the bot with no call that hangs
SpecBotLive == InitBot /\ [][NextBot]_vars /\ WF_vars(Bot_Step)

\* agent runs one after another on a directory that may hold theses
InitFiles ==
    /\ Builder_Off
    /\ QA_Idle
    /\ Parse_Idle
    /\ Bot_Idle
    /\ files \in SUBSET InitialTheses
    /\ now = 0 /\ second = 0
    /\ agent_pc = "idle" /\ cur = NoRun /\ nruns = 0
    /\ Pipes_Idle
    /\ Rerun_Idle

NextFiles ==
    \/ Clock_Tick
    \/ \E agent \in {"slide1", "powerpoint", "finalpass"}, name \in FileSectors :
          \E given \in {<<>>, MissingDeck}
                         \cup {f.name : f \in {g \in files : g.by = "powerpoint"}} :
              Run_Start(agent, name, given)
    \/ \E provider_raises \in BOOLEAN : Research_Search(provider_raises)
    \/ Research_Synthesize
    \/ Deck_Load
    \/ Review_Load
    \/ Agent_WorkReturns
    \/ Agent_ModelRaises
    \/ Agent_Save
    \/ Review_SaveReport

SpecFiles == InitFiles /\ [][NextFiles]_vars

\* pipeline runs on a directory that may hold theses of earlier runs
InitPipes ==
    /\ Builder_Off
    /\ QA_Idle
    /\ Parse_Idle
    /\ Bot_Idle
    /\ files \in SUBSET InitialTheses
    /\ now = 0 /\ second = 0
    /\ agent_pc = "idle" /\ cur = NoRun /\ nruns = 0
    /\ Pipes_Idle
    /\ Rerun_Idle

\* the runs of one bot process: one at a time, for any sectors
NextPipeline ==
    \/ Clock_Tick
    \/ \E r \in 1..MaxPipes, name \in FileSectors : Pipe_Start(r, name, FALSE)
    \/ \E r \in 1..MaxPipes : Pipe_Outline(r)
    \/ \E r \in 1..MaxPipes : Pipe_DeckLoad(r)
    \/ \E r \in 1..MaxPipes : Pipe_DeckSave(r)
    \/ \E r \in 1..MaxPipes : Pipe_ReviewLoad(r)
    \/ \E r \in 1..MaxPipes : Pipe_ReviewSave(r)
    \/ \E r \in 1..MaxPipes : Pipe_ReportSave(r)

SpecPipeline == InitPipes /\ [][NextPipeline]_vars

\* the runs of several processes for one sector on one directory
NextRace ==
    \/ Clock_Tick
    \/ \E r \in 1..MaxPipes, name \in FileSectors : Pipe_Start(r, name, TRUE)
    \/ \E r \in 1..MaxPipes : Pipe_Outline(r)
    \/ \E r \in 1..MaxPipes : Pipe_DeckLoad(r)
    \/ \E r \in 1..MaxPipes : Pipe_DeckSave(r)
    \/ \E r \in 1..MaxPipes : Pipe_ReviewLoad(r)
    \/ \E r \in 1..MaxPipes : Pipe_ReviewSave(r)
    \/ \E r \in 1..MaxPipes : Pipe_ReportSave(r)

SpecRace == InitPipes /\ [][NextRace]_vars

(***************************************************************************)
(* Properties of the deck builders.                                        *)
(***************************************************************************)
\* the lines of a text that are markdown bullet lines
IsBulletLine(l) == StartsWith(Strip(l), <<"-"," ">>)
BulletLinesOf(text) == SelectSeq(Split(text, "\n"), IsBulletLine)

\* the text of a bullet line, within the length cap
BulletText(l) == Strip(From(Strip(l), 2))
Capped(b) == IF Len(b) <= 120 THEN b ELSE SubSeq(b, 1, 117) \o <<".",".",".">>

\* the slides made for sections: every title-and-content slide but the
\* executive summary
IsSectionSlide(s) ==
    s.layout = "title_content" /\ s.shapes[1].paras # <<<<"E","x","e","c","u","t","i","v","e"," ","S","u","m","m","a","r","y">>>>
ContentSlides == SelectSeq(prs, IsSectionSlide)
BulletsOf(s) == s.shapes[2].paras

\* the model calls made for section i
CallsFor(i) == SelectSeq(llm_log, LAMBDA c : c.call = i)

\* C1: in both builders exactly one content slide is added per parsed
\* section, in section order, and each content slide is given exactly three
\* bullets, whatever the language model replied.
C1_OneSlidePerSectionThreeBullets ==
    /\ Len(ContentSlides) <= Len(Sections)
    /\ pc = "done" => Len(ContentSlides) = Len(Sections)
    /\ \A i \in 1..Len(ContentSlides) :
          /\ ContentSlides[i].shapes[1].paras = <<full_title(Sections[i])>>
          /\ Len(BulletsOf(ContentSlides[i])) = 3

\* a networking deck of two sections is complete, one reply was empty and
\* one held four bullet lines
C1_Witness ==
    /\ builder = "net" /\ pc = "done" /\ Len(Sections) = 2
    /\ \E k \in 1..Len(llm_log) : llm_log[k].response = ReplyEmpty
    /\ \E k \in 1..Len(llm_log) : llm_log[k].response = ReplyFour

\* C2: every bullet placed on a section content slide is at most 120
\* characters long, on the condensation path and on the verbatim path.
C2_BulletsWithinCap ==
    \A i \in 1..Len(ContentSlides) :
        \A k \in 1..Len(BulletsOf(ContentSlides[i])) :
            Len(BulletsOf(ContentSlides[i])[k]) <= 120

IsVCTitleSlide(s) ==
    s.layout = "blank" /\ s.shapes[2].paras = <<<<"V","e","n","t","u","r","e"," ","C","a","p","i","t","a","l"," ","I","n","d","u","s","t","r","y"," ","T","h","e","s","i","s">>>>
IsVCClosingSlide(s) ==
    s.layout = "blank" /\ s.shapes[2].paras = <<<<"T","h","a","n","k"," ","Y","o","u">>>>
IsSummarySlide(s) ==
    s.layout = "title_content" /\ s.shapes[1].paras = <<<<"E","x","e","c","u","t","i","v","e"," ","S","u","m","m","a","r","y">>>>

\* C3: a finished VC deck of an outline with N sections has N+3 slides when
\* the parsed executive summary is non-empty and N+2 when it is empty, in
\* the order title, [executive summary], the N section slides, closing.
C3_SlideCountAndOrder ==
    (builder = "vc" /\ pc = "done") =>
        LET N == Len(Sections)
            e == IF thesis_data.executive_summary # <<>> THEN 1 ELSE 0
        IN  /\ Len(prs) = N + 2 + e
            /\ IsVCTitleSlide(prs[1])
            /\ e = 1 => IsSummarySlide(prs[2])
            /\ \A i \in 1..N :
                  /\ IsSectionSlide(prs[1 + e + i])
                  /\ prs[1 + e + i].shapes[1].paras = <<full_title(Sections[i])>>
            /\ IsVCClosingSlide(prs[Len(prs)])
            /\ \A j \in 1..Len(prs) : IsSummarySlide(prs[j]) => (e = 1 /\ j = 2)

\* a finished VC deck with an executive summary and two sections
C3_Witness ==
    /\ builder = "vc" /\ pc = "done"
    /\ thesis_data.executive_summary # <<>>
    /\ Len(Sections) = 2

\* C4: a section whose content already holds exactly three bullet lines gets
\* those three bullets on its slide (after the length cap) and no call to
\* the language model is made for it.
C4_ThreeBulletsReusedWithoutCall ==
    \A i \in 1..Len(ContentSlides) :
        LET own == BulletLinesOf(Sections[i].content)
        IN  Len(own) = 3 =>
              /\ CallsFor(i) = <<>>
              /\ BulletsOf(ContentSlides[i])
                   = [k \in 1..3 |-> Capped(BulletText(own[k]))]

\* what the claim expects on the slide after a reply: the reply's bullets
\* in reply order, the filler for the missing ones, three in all
ExpectedBullets(response) ==
    LET given == BulletLinesOf(response)
    IN  [k \in 1..3 |-> IF k <= Len(given) THEN Capped(BulletText(given[k]))
                        ELSE <<"A","d","d","i","t","i","o","n","a","l"," ","r","e","s","e","a","r","c","h"," ","p","e","n","d","i","n","g">>]

\* C5: for a section with zero or one bullet line the condensation call is
\* made exactly once; fewer than three bullets in the reply are padded with
\* 'Additional research pending', more than three are cut to the first three.
C5_CondensedOncePaddedOrCut ==
    \A i \in 1..Len(ContentSlides) :
        Len(BulletLinesOf(Sections[i].content)) <= 1 =>
            /\ Len(CallsFor(i)) = 1
            /\ ~CallsFor(i)[1].raised
            /\ BulletsOf(ContentSlides[i]) = ExpectedBullets(CallsFor(i)[1].response)

\* a deck is complete where one section got a reply of two bullets and one a
\* reply of four
C5_Witness ==
    /\ pc = "done" /\ Len(Sections) = 2
    /\ \A i \in 1..2 : Len(BulletLinesOf(Sections[i].content)) <= 1
    /\ \E k \in 1..Len(llm_log) : llm_log[k].response = ReplyTwo
    /\ \E k \in 1..Len(llm_log) : llm_log[k].response = ReplyFour

\* the issues of the bullet-count rule among a list of issues
BulletIssues(found) ==
    SelectSeq(found, LAMBDA q : q.issue_type \in {"too_few_bullets", "too_many_bullets"})

\* whether a line of the document is a numbered header "## <N>. <Title>"
IsNumberedHeader(line) ==
    LET d == DigitRunEnd(line, 4)
    IN  /\ StartsWith(line, <<"#","#"," ">>) /\ d > 4
        /\ At(line, d, <<"."," ">>) /\ d + 2 <= Len(line)

\* the number and the title written on a numbered header line
HeaderOf(line) ==
    LET d == DigitRunEnd(line, 4)
    IN  [number |-> SubSeq(line, 4, d - 1),
         title |-> Strip(SubSeq(line, d + 2, Len(line)))]

\* the numbered header lines of a document, in source order
HeaderLines(text) == SelectSeq(Split(text, "\n"), IsNumberedHeader)

\* C6: the parsers return exactly one section per numbered header line of
\* the document, in source order, each with the number and the title written
\* on its line, whatever the bodies hold, an empty body directly followed by
\* the next numbered header included.
C6_OneSectionPerHeader ==
    parse_pc \in {"thesis", "strategy"} =>
        LET heads == HeaderLines(markdown)
        IN  /\ Len(parsed.sections) = Len(heads)
            /\ \A i \in 1..Len(heads) :
                  /\ parsed.sections[i].number = HeaderOf(heads[i]).number
                  /\ parsed.sections[i].title = HeaderOf(heads[i]).title

\* C7: end to end, an outline of five sections with three bullet lines each
\* gives a VC deck of 7 slides, built without any language-model call, on
\* which the bullet-count check records no issue.
C7_EndToEndScenario ==
    (builder = "vc" /\ pc = "done" /\ Sections = StubSections
        /\ thesis_data.executive_summary = <<>>) =>
        /\ Len(prs) = 7
        /\ llm_log = <<>>
        /\ BulletIssues(validate_bullet_count(extract_slide_content(prs))) = <<>>

(***************************************************************************)
(* Properties of the quality pass.                                         *)
(***************************************************************************)
\* the paragraphs of a slide longer than 10 characters
RECURSIVE CountLong(_)
CountLong(paras) ==
    IF paras = <<>> THEN 0
    ELSE (IF Len(Strip(Head(paras))) > 10 THEN 1 ELSE 0) + CountLong(Tail(paras))

RECURSIVE CountableIn(_)
CountableIn(shapes) ==
    IF shapes = <<>> THEN 0
    ELSE CountLong(Head(shapes).paras) + CountableIn(Tail(shapes))

Countable(i) == CountableIn(qa_loaded[i].shapes)

\* the issues the bullet-count rule recorded for slide i in this run
BulletIssuesFor(i) == SelectSeq(BulletIssues(issues), LAMBDA q : q.slide_num = i)

Checked(i) == i \notin {1, 2, Len(qa_loaded)}
IsOne(found, type) ==
    Len(found) = 1 /\ found[1].issue_type = type /\ found[1].severity = "warning"

C9_ExemptByIndex ==
    qa_pc # "idle" =>
        \A i \in 1..Len(qa_loaded) :
            LET found == BulletIssuesFor(i)
            IN  IF i = 1 \/ i = 2 \/ i = Len(qa_loaded) THEN found = <<>>
                ELSE IF Countable(i) < 2 \/ Countable(i) > 6
                     THEN Len(found) = 1 /\ found[1].severity = "warning"
                     ELSE found = <<>>

\* slide 2 of 4 has seven bullets and is exempt, slide 3 has one and is not
C9_Witness ==
    /\ qa_pc = "done" /\ Len(qa_loaded) = 4
    /\ Countable(2) = 7
    /\ Countable(3) = 1

\* C10: the reviewed deck has the slides of the loaded deck with the same
\* shape texts; notes are written only on slides the bullet-count rule
\* flagged.
C10_VisibleTextUntouched ==
    /\ Len(qa_prs) = Len(qa_loaded)
    /\ \A i \in 1..Len(qa_prs) : qa_prs[i].shapes = qa_loaded[i].shapes
    /\ reviewed.saved =>
          /\ Len(reviewed.content) = Len(qa_loaded)
          /\ \A i \in 1..Len(qa_loaded) :
                /\ reviewed.content[i].shapes = qa_loaded[i].shapes
                /\ reviewed.content[i].layout = qa_loaded[i].layout
                /\ BulletIssuesFor(i) = <<>> =>
                      /\ reviewed.content[i].has_notes = qa_loaded[i].has_notes
                      /\ reviewed.content[i].notes = qa_loaded[i].notes

\* a reviewed deck was saved with a fix in the notes of its third slide
C10_Witness ==
    /\ reviewed.saved /\ Len(reviewed.content) = 4
    /\ reviewed.content[3].has_notes
    /\ ~reviewed.content[2].has_notes

(***************************************************************************)
(* Properties of the grammar review.                                       *)
(***************************************************************************)
\* the first place of a line where 'SLIDE', blank space and digits stand,
\* 0 if the line names no slide
NamedAt(line) ==
    LET at == {i \in 1..Len(line) :
                 /\ At(line, i, <<"S","L","I","D","E">>)
                 /\ LET d == SpaceRunEnd(line, i + 5)
                    IN  d <= Len(line) /\ IsDigit(line[d])}
    IN  IF at = {} THEN 0 ELSE SetMin(at)

\* the number n of the slide a line names as 'SLIDE <n>'
NamedSlide(line) ==
    LET d == SpaceRunEnd(line, NamedAt(line) + 5)
    IN  ToInt(SubSeq(line, d, DigitRunEnd(line, d) - 1))

\* what the claim expects from one line of the reply
GrammarExpected(line) ==
    IF ~Contains(line, <<"-",">">>) \/ Contains(line, <<"O","K">>) THEN <<>>
    ELSE IF NamedAt(line) = 0 THEN <<>>
    ELSE << [slide_num |-> NamedSlide(line), issue_type |-> "grammar",
             severity |-> "info"] >>

\* C11: once the grammar reply is in, the recorded grammar issues are, line
\* by line of the reply: none for a line without '->' or with 'OK', one
\* 'info' issue of type 'grammar' for slide n for every other line naming
\* 'SLIDE <n>', none for a line naming no slide; and the run has failed only
\* where a model call raised, never over a reply.
C11_GrammarReplyParsed ==
    /\ qa_pc \in {"fixes", "done"} =>
          LET lines == Split(grammar_feedback, "\n")
          IN  SelectSeq(issues, LAMBDA q : q.issue_type = "grammar")
                = Concat([k \in 1..Len(lines) |-> GrammarExpected(lines[k])])
    /\ qa_pc = "failed" => grammar_feedback = <<>> \/ fix_todo # <<>>

\* a reply of three lines was parsed: one with 'OK' inside a word, one that
\* names no slide, one that names slide 12; one issue was recorded
C11_Witness ==
    /\ qa_pc = "done"
    /\ grammar_feedback = <<"S","L","I","D","E"," ","2",":"," ","B","O","O","K"," ","-",">"," ","b","o","o","k","\n","G","e","n","e","r","a","l",":"," ","t","i","g","h","t","e","n"," ","-",">"," ","s","h","o","r","t","e","n","\n","S","L","I","D","E"," ","1","2"," ","-",">"," ","t","o","o"," ","l","o","n","g">>
    /\ Len(SelectSeq(issues, LAMBDA q : q.issue_type = "grammar")) = 1

(***************************************************************************)
(* Properties of the bot's handlers.                                       *)
(***************************************************************************)
ErrorMessages ==
    { Msg("[ERROR] Error generating thesis"),
      Msg("[ERROR] Error generating networking strategy"),
      Msg("[ERROR] PowerPoint generation failed") }

\* how many events of a set are among the first n events
CountIn(S, n) == Cardinality({i \in 1..n : events[i] \in S})

\* the agent calls of this invocation, in order
CallsMade ==
    LET calls == SelectSeq(events, LAMBDA e : e.kind = "call")
    IN  [i \in 1..Len(calls) |-> calls[i].what]

\* C12: in a /vc run, once an agent call of any of the four phases has
\* raised, no further agent is called, no '[COMPLETE]' message is sent, and
\* the run sends exactly one '[ERROR]' message.
C12_PhaseErrorAbortsWithOneMessage ==
    command = "vc" =>
        \A i \in 1..Len(events) :
            (events[i].kind = "raised" /\ events[i].what # "constructor") =>
                /\ \A j \in (i + 1)..Len(events) :
                      events[j].kind # "call" /\ events[j] # Msg("[COMPLETE]")
                /\ CountIn(ErrorMessages, Len(events)) = 1

\* C13: an invocation that follows a failed one and in which no constructor
\* and no agent run raises ends with the '[COMPLETE]' message.
C13_AvailableAfterFailure ==
    (/\ bot_pc = "idle" /\ failed_before /\ bot_args # <<>>
     /\ \A i \in 1..Len(events) :
           events[i].kind = "raised" => events[i].why # "external")
        => events[Len(events)] = Msg("[COMPLETE]")

\* C16: with tokens a1..an, n >= 1: if n > 1 and the last token has two
\* characters, the region is that token and the sector is the tokens before
\* it joined by single spaces; otherwise the region is 'US' and the sector
\* is all tokens joined by single spaces.  Without tokens no pipeline is
\* started.
C16_SectorAndRegionFromTokens ==
    /\ (invocations > 0 /\ bot_args # <<>>) =>
          LET n == Len(bot_args)
          IN  IF n > 1 /\ Len(bot_args[n]) = 2
              THEN /\ bot_region = bot_args[n]
                   /\ Split(bot_sector, " ") = SubSeq(bot_args, 1, n - 1)
              ELSE /\ bot_region = <<"U","S">>
                   /\ Split(bot_sector, " ") = bot_args
    /\ (invocations > 0 /\ bot_args = <<>>) =>
          bot_pc = "idle" /\ events = << Msg("usage") >>

\* C17: whenever '[COMPLETE]' is sent, exactly one document was sent before
\* it in this run; a run that sent an '[ERROR]' message sent no document.
C17_OneDeckBeforeComplete ==
    LET Docs == {e \in {events[i] : i \in 1..Len(events)} : e.kind = "doc"}
    IN  /\ \A i \in 1..Len(events) :
              events[i] = Msg("[COMPLETE]") => CountIn(Docs, i - 1) = 1
        /\ CountIn(ErrorMessages, Len(events)) > 0 => Docs = {}

\* the quality pass raised, the deck of phase 3 was sent, then '[COMPLETE]'
C17_Witness ==
    /\ bot_pc = "idle" /\ command = "vc"
    /\ \E i \in 1..Len(events) : events[i] = Raise("finalpass", "external")
    /\ events[Len(events)] = Msg("[COMPLETE]")
    /\ events[Len(events) - 1] = Doc("original deck")

\* the agents whose calls make up phase k of a pipeline
PhaseAgents(cmd, k) ==
    IF cmd = "vc"
    THEN CASE k = 1 -> {"slide1", "slide2", "slide3", "slide4", "slide5"}
           [] k = 2 -> {"outline"}
           [] k = 3 -> {"powerpoint"}
           [] k = 4 -> {"finalpass"}
    ELSE CASE k = 1 -> {"networking_research"}
           [] k = 2 -> {"networking_outline"}
           [] k = 3 -> {"networking_powerpoint"}
           [] k = 4 -> {}

PhaseComplete(k) ==
    Msg(<< "[OK] Phase 1 complete", "[OK] Phase 2 complete",
           "[OK] Phase 3 complete", "[OK] Phase 4 complete" >>[k])

\* the order the claim gives for the stages of a run
ClaimedOrder(cmd) ==
    IF cmd = "vc"
    THEN << "slide1", "slide2", "slide3", "slide4", "slide5", "outline",
            "powerpoint", "finalpass" >>
    ELSE << "networking_research", "networking_outline", "networking_powerpoint" >>

\* C20: the agents called in a run are the first ones of the pipeline's
\* order, each once; when an agent is called every agent before it has
\* returned; '[OK] Phase k complete' is sent only after every agent of
\* phase k has returned.
C20_StagesInOrder ==
    command \in {"vc", "networking"} =>
        /\ Len(CallsMade) <= Len(ClaimedOrder(command))
        /\ CallsMade = SubSeq(ClaimedOrder(command), 1, Len(CallsMade))
        /\ \A i \in 1..Len(events) :
              events[i].kind = "call" =>
                  \A k \in 1..Len(ClaimedOrder(command)) :
                      (ClaimedOrder(command)[k] = events[i].what) =>
                          \A b \in 1..(k - 1) :
                              \E j \in 1..(i - 1) :
                                  events[j] = Ret(ClaimedOrder(command)[b])
        /\ \A i \in 1..Len(events), k \in 1..4 :
              events[i] = PhaseComplete(k) =>
                  \A a \in PhaseAgents(command, k) :
                      \E j \in 1..(i - 1) : events[j] = Ret(a)

\* a /vc run went through all eight agents and ended with '[COMPLETE]'
C20_Witness ==
    /\ bot_pc = "idle" /\ command = "vc"
    /\ Len(CallsMade) = 8
    /\ events[Len(events)] = Msg("[COMPLETE]")
    /\ \E i \in 1..Len(events) : events[i] = Ret("finalpass")

\* the files a load by sector may choose from, as the claim names them:
\* names of the stage and sector, for the quality pass without the marker
ClaimedChoice(agent, name) ==
    {f \in files :
        /\ StartsWith(f.name, <<"v","c","_","t","h","e","s","i","s","_">> \o sector_slug(name) \o <<"_">>)
        /\ EndsWith(f.name, IF agent = "powerpoint" THEN <<".","m","d">> ELSE <<".","p","p","t","x">>)
        /\ agent = "finalpass" => ~Contains(f.name, <<"_","r","e","v","i","e","w","e","d">>)}

\* C14: a load by sector takes a file of the stage's and sector's name
\* pattern that no other such file is newer than; the quality pass never
\* takes a file with the 'reviewed' marker and never reviews a deck a
\* quality pass wrote; when no file matches, the load raises.
C14_LoadTakesLatestUnreviewed ==
    [][ /\ (agent_pc = "load" /\ agent_pc' # "load" /\ cur.given = <<>>) =>
             IF ClaimedChoice(cur.agent, cur.sector) = {}
             THEN cur'.outcome = "raised" /\ cur'.loaded = <<>> /\ files' = files
             ELSE /\ cur'.outcome = "running"
                  /\ \E f \in ClaimedChoice(cur.agent, cur.sector) :
                        /\ cur'.loaded = f.name
                        /\ \A g \in ClaimedChoice(cur.agent, cur.sector) :
                              g.mtime <= f.mtime
        /\ cur'.agent = "finalpass" =>
             /\ cur'.loaded_by # "finalpass"
             /\ ~Contains(cur'.loaded, <<"_","r","e","v","i","e","w","e","d">>)
      ]_vars

\* the quality pass loaded a deck by sector while a reviewed deck of the
\* sector, newer than the deck it loaded, lay in the directory
C14_Witness ==
    /\ cur.agent = "finalpass" /\ cur.given = <<>> /\ agent_pc = "work"
    /\ \E f \in files, r \in files :
          /\ f.name = cur.loaded /\ f.by = "powerpoint"
          /\ r.by = "finalpass" /\ Contains(r.name, <<"_","r","e","v","i","e","w","e","d">>)
          /\ StartsWith(r.name, <<"v","c","_","t","h","e","s","i","s","_">> \o sector_slug(cur.sector) \o <<"_">>)
          /\ r.mtime > f.mtime

\* C15: no step replaces or changes a file that lies in the directory, and
\* every file an invocation writes has a name no earlier file has, also when
\* two invocations of one stage and sector fall into the same clock second.
C15_ArtifactsNeverOverwritten ==
    [][ /\ \A f \in files : f \in files'
        /\ ~cur'.replaced ]_vars

\* C18: a search that raises gives an empty result and never ends a research
\* run: a run is left only by the synthesis call raising or by returning,
\* both after all searches were issued; a run that returned made one
\* synthesis call and wrote its research document.
C18_SearchFailureNotFatal ==
    cur.agent = "slide1" =>
        /\ agent_pc = "search" => cur.outcome = "running"
        /\ cur.raised_in \in {"none", "llm"}
        /\ agent_pc # "search" => cur.searches = Len(Slide1Searches)
        /\ cur.failed <= cur.searches
        /\ cur.outcome = "returned" =>
              /\ cur.llm_calls = 1 /\ cur.wrote = 1
              /\ \E f \in files, sec \in 0..second :
                    /\ f.by = "slide1"
                    /\ f.name = research_filename(cur.sector, sec)

\* a research run in which every search raised has returned and its
\* document lies in the directory
C18_Witness ==
    /\ cur.agent = "slide1" /\ cur.outcome = "returned"
    /\ cur.failed = Len(Slide1Searches)
    /\ \E f \in files, sec \in 0..second :
          f.name = research_filename(cur.sector, sec)

\* C19: when a model call inside an agent's run raises, the run ends with
\* the exception and the invocation has written no file: no research
\* document, no deck, no reviewed deck and no report.
C19_ModelFailureWritesNothing ==
    cur.raised_in = "llm" =>
        /\ cur.outcome = "raised"
        /\ agent_pc = "idle"
        /\ cur.wrote = 0 /\ ~cur.replaced

\* the quality pass loaded a deck, a model call of its checks raised, and the
\* directory holds neither a reviewed deck nor a report
C19_Witness ==
    /\ cur.agent = "finalpass" /\ cur.raised_in = "llm" /\ cur.loaded # <<>>
    /\ \A f \in files : f.by # "finalpass"
    /\ \E f \in files : f.by = "powerpoint"

FinalMessages == ErrorMessages \cup { Msg("[COMPLETE]") }

\* C24: an invocation with arguments ends, and when it has ended it has sent
\* exactly one final message, the '[COMPLETE]' message or one '[ERROR]'
\* message, as its last message.  Message sends are taken to succeed.
C24_ExactlyOneFinalMessage ==
    /\ [](bot_pc # "idle" => <>(bot_pc = "idle"))
    /\ []((bot_pc = "idle" /\ bot_args # <<>>) =>
             /\ CountIn(FinalMessages, Len(events)) = 1
             /\ events[Len(events)] \in FinalMessages)

\* an invocation ended with the deck builder's own '[ERROR]' message
C24_Witness ==
    /\ bot_pc = "idle" /\ bot_args # <<>>
    /\ events[Len(events)] = Msg("[ERROR] PowerPoint generation failed")
    /\ \E i \in 1..Len(events) : events[i].kind = "raised"

\* C25: a /vc run that sent the '[COMPLETE]' message is one whose quality
\* pass returned and whose one attachment is the reviewed deck; after the
\* '[OK] Phase 4 complete' message the unreviewed deck is never sent.
C25_CompleteOnlyAfterReview ==
    command = "vc" =>
        /\ (\E i \in 1..Len(events) : events[i] = Msg("[COMPLETE]")) =>
              /\ \E i \in 1..Len(events) : events[i] = Ret("finalpass")
              /\ \A i \in 1..Len(events) :
                    events[i].kind = "doc" => events[i] = Doc("reviewed deck")
        /\ \A i \in 1..Len(events) :
              events[i] = Msg("[OK] Phase 4 complete") =>
                  \A j \in (i + 1)..Len(events) : events[j] # Doc("original deck")

\* C27: when _get_agents has returned and the pipeline runs, all eleven
\* agents are constructed, also after an earlier call of _get_agents raised.
C27_AllAgentsConstructed ==
    bot_pc \notin {"idle", "get_agents"} => agents_built = Len(BotAgentNames)

\* the names the stages give to files written for a sector
NamesFor(name) ==
    UNION { { thesis_filename(name, sec), deck_filename(name, sec),
              reviewed_filename(name, sec) } : sec \in 0..MaxTicks }

\* C26: a load by sector never takes a file that was written for another
\* sector, also when one sector's slug is the beginning of the other's.
C26_LoadStaysInSector ==
    [][ (/\ agent_pc = "load" /\ agent_pc' # "load"
         /\ cur.given = <<>> /\ cur'.loaded # <<>>)
            => cur'.loaded \in NamesFor(cur.sector) ]_vars

\* C30: a quality pass that was handed a file path loads exactly that file
\* or raises, also when no file lies at the path.
C30_GivenFileOrRaise ==
    [][ (/\ agent_pc = "load" /\ agent_pc' # "load" /\ cur.given # <<>>)
            => \/ cur'.loaded = cur.given
               \/ cur'.outcome = "raised" ]_vars

(***************************************************************************)
(* Properties of pipeline runs on the Outputs directory.                   *)
(***************************************************************************)
\* the file lying under a name
FileNamed(name) == CHOOSE f \in files : f.name = name

\* the thesis files of other names that a load for run r's sector can see
\* and that are older than the thesis run r wrote
OtherTheses(r) ==
    {f \in files :
        /\ f.name # pipes[r].thesis
        /\ StartsWith(f.name, <<"v","c","_","t","h","e","s","i","s","_">> \o sector_slug(pipes[r].sector) \o <<"_">>)
        /\ EndsWith(f.name, <<".","m","d">>)}

\* C21: with one run at a time, the deck builder of a run loads the thesis
\* the outline compiler of that run wrote, whenever every other thesis it
\* could match is older, and the quality pass of a run loads the deck the
\* deck builder of that run wrote.
C21_StagesConsumeOwnArtifacts ==
    [][ \A r \in 1..MaxPipes :
          /\ (/\ pipes[r].stage = "phase3_load" /\ pipes'[r].stage # "phase3_load"
              /\ \A f \in OtherTheses(r) : f.mtime < FileNamed(pipes[r].thesis).mtime)
                => /\ pipes'[r].loaded_thesis = pipes[r].thesis
                   /\ <<pipes[r].thesis, r>> \in owners
          /\ (pipes[r].stage = "phase4_load" /\ pipes'[r].stage # "phase4_load")
                => /\ pipes'[r].loaded_deck = pipes[r].deck
                   /\ <<pipes[r].deck, r>> \in owners
      ]_vars

\* a run went through all phases on its own thesis and deck while an older
\* thesis of the same sector and an older one of the other sector lay in
\* the directory
C21_Witness ==
    \E r \in 1..MaxPipes :
        /\ pipes[r].stage = "done"
        /\ pipes[r].loaded_thesis = pipes[r].thesis
        /\ pipes[r].loaded_deck = pipes[r].deck
        /\ \E f \in OtherTheses(r), g \in OtherTheses(r) :
              /\ f.mtime < FileNamed(pipes[r].thesis).mtime
              /\ g.mtime < FileNamed(pipes[r].thesis).mtime
              /\ StartsWith(f.name, <<"v","c","_","t","h","e","s","i","s","_","f","i","n","_","2">>)
              /\ StartsWith(g.name, <<"v","c","_","t","h","e","s","i","s","_","f","i","n","_","t","e","c","h","_">>)

\* the names under which run r wrote a file
WrittenBy(r) ==
    {pipes[r].thesis, pipes[r].deck, pipes[r].reviewed, pipes[r].qa_report} \ {<<>>}

\* C22: when runs for one sector interleave, no run fails, every file a run
\* wrote still lies under its name as that run wrote it (none is replaced
\* or lost), and what a stage loaded is a file one of the runs wrote or an
\* older file of the directory.
C22_RaceIsBenign ==
    \A r \in 1..MaxPipes :
        /\ pipes[r].stage # "failed"
        /\ \A name \in WrittenBy(r) : <<name, r>> \in owners
        /\ \A name \in {pipes[r].loaded_thesis, pipes[r].loaded_deck} \ {<<>>} :
              \E f \in files : f.name = name

\* a content slide as the builders make it whose body holds three bullets
\* of more than 10 characters each
IsThreeBulletContentSlide(slide) ==
    /\ slide.layout = "title_content"
    /\ Len(slide.shapes) = 2
    /\ slide.shapes[1].is_title /\ ~slide.shapes[2].is_title
    /\ Len(slide.shapes[2].paras) = 3
    /\ \A k \in 1..3 : Len(Strip(slide.shapes[2].paras[k])) > 10

\* C23: the bullet count the quality pass computes for a loaded content
\* slide with three body bullets of more than 10 characters is 3, whatever
\* the slide's title is.
C23_TitleNotCounted ==
    \A i \in 1..Len(qa_loaded) :
        IsThreeBulletContentSlide(qa_loaded[i]) =>
            extract_slide_content(qa_loaded)[i].bullet_count = 3

\* C29: every issue a quality-pass run has recorded, and every slide heading
\* of its report, names a slide number between 1 and the number of slides
\* of the deck under review, whatever the grammar reply says.
C29_IssuesNameSlidesOfTheDeck ==
    /\ \A k \in 1..Len(issues) : issues[k].slide_num \in 1..Len(qa_loaded)
    /\ report.saved =>
          \A k \in 1..Len(report.content.by_slide) :
              report.content.by_slide[k].slide_num \in 1..report.content.slides_analyzed

(***************************************************************************)
(* Several runs of one FinalPassAgent instance.                            *)
(***************************************************************************)
\* what the run now in qa_loaded has found: the three heuristic checks on
\* the deck it loaded and the issues read from the grammar reply it got
IssuesOfThisRun ==
    LET slides_data == extract_slide_content(qa_loaded)
    IN  validate_content_completeness(slides_data)
        \o validate_bullet_count(slides_data)
        \o validate_text_overflow(slides_data)
        \o grammar_issues(grammar_feedback)

\* the issues a report lists under its slide headings, heading by heading
ListedIssues(content) ==
    Concat([k \in 1..Len(content.by_slide) |-> content.by_slide[k].issues])

\* C28: when one FinalPassAgent instance runs the quality pass several
\* times, the report of a run counts and lists exactly the issues that run
\* found: its total is their number, each slide heading lists that run's
\* issues for the slide, nothing an earlier run found (one that raised
\* part-way included) is carried in, and the error, warning and info counts
\* add up to the total.
C28_ReportHoldsThisRunsIssues ==
    report.saved =>
        LET content == report.content
            mine == IssuesOfThisRun
        IN  /\ issues = mine
            /\ content.issues_found = Len(mine)
            /\ Len(ListedIssues(content)) = Len(mine)
            /\ \A k \in 1..Len(content.by_slide) :
                   content.by_slide[k].issues
                       = SelectSeq(mine, LAMBDA q :
                                     q.slide_num = content.by_slide[k].slide_num)
            /\ content.errors + content.warnings + content.info
                   = content.issues_found

\* a run called after an earlier run raised part-way has saved its report,
\* with fewer issues than the instance held when it was called
C28_Witness ==
    /\ qa_runs >= 1
    /\ earlier_raised
    /\ report.saved
    /\ earlier_issues # <<>>
    /\ Len(issues) < Len(earlier_issues)
    /\ report.content.issues_found = Len(issues)

====
